---- MODULE Spec2Model ----
(***************************************************************************)
(* Model of the in-memory cache storage engine (src/src/storage.rs) with   *)
(* its entries (src/src/entry.rs), statistics (src/src/stats.rs) and        *)
(* configuration (src/src/config.rs).                                       *)
(*                                                                          *)
(* The store is the IndexMap behind the RwLock, modelled as a sequence of   *)
(* [key, value, expires_at, last_accessed] records in IndexMap order.       *)
(* Every section of code that runs under one lock guard is one action: the  *)
(* RwLock makes it atomic with respect to every other section.  get and     *)
(* contains release the read guard before they take the write guard, and    *)
(* set_internal builds its Entry (reading the clock) before it takes the    *)
(* write guard, so these are several actions with the thread's position in  *)
(* th[t].pc.  Statistics are relaxed atomics nobody reads to take a         *)
(* decision; an update made right after a guard is dropped is folded into   *)
(* the action of that guard.                                                *)
(*                                                                          *)
(* Option<T> is a sequence of length 0 (None) or 1 (Some).                  *)
(***************************************************************************)
EXTENDS Integers, Sequences, FiniteSets, TLC

\* Bounds of the model: calls started in a run, clock readings, and the
\* number of plain sets that ran before the run starts (see Init).
MaxOps == 2
MaxTime == 1
MaxFill == 2

Threads == {1, 2}
Keys == {"a", "b", "c"}
Values == {"v1", "v2"}
\* Durations handed to set_with_ttl.
Ttls == {1}
\* The keys of the sets that ran before the run starts, in call order.
FillKeys == <<"a", "b", "c", "d">>

None == <<>>
Some(x) == <<x>>
IsSome(o) == Len(o) = 1
Unwrap(o) == o[1]

\* The configurations a run of Spec draws from (CacheConfig is fixed at
\* Db::new): CacheConfig::new().max_capacity(2), no default TTL.
Capacities == {Some(2)}
DefaultTtls == {None}

VARIABLES
    entries,   \* Db.entries: the IndexMap, in its order
    stats,     \* Db.stats: the seven CacheStats counters
    config,    \* Db.config
    now,       \* the monotonic clock read by Instant::now()
    th,        \* per thread: position inside a call and the call's locals
    hist,      \* the calls that returned in this run, in order of return:
               \* arguments, the clock readings the call took, result
    pre,       \* entries, stats and cloned just before the step that made
               \* the last call of hist return
    overlap,   \* whether a call ever started while another was in flight
    poisoned,  \* whether the RwLock of Db.entries is poisoned
    handles,   \* the Cache handles: for each, the Db its Arc points to
    cloned,    \* the Db that Db::clone returned, None before any call of it
    handler_existed  \* per thread: the local `existed` of the set request
               \* (process_command, Db::write) it is handling

vars == <<entries, stats, config, now, th, hist, pre, overlap, poisoned, handles, cloned,
          handler_existed>>

\* What no call on the engine changes.
others == <<config, poisoned, handles, cloned, handler_existed>>

----------------------------------------------------------------------------
\* entry.rs

Entry_new(value, t) ==
    [value |-> value, expires_at |-> None, last_accessed |-> t]

Entry_with_expiration(value, expires_at, t) ==
    [value |-> value, expires_at |-> Some(expires_at), last_accessed |-> t]

\* Faulty variant of is_expired_at: expired only strictly after expires_at.
is_expired_at_gt(entry, t) ==
    IF IsSome(entry.expires_at) THEN t > Unwrap(entry.expires_at) ELSE FALSE

is_expired_at(entry, t) ==
    IF IsSome(entry.expires_at) THEN t >= Unwrap(entry.expires_at) ELSE FALSE

touch(entry, t) == [entry EXCEPT !.last_accessed = t]

----------------------------------------------------------------------------
\* The IndexMap operations the engine uses, on a sequence of
\* [key, entry] pairs.

KeysOf(es) == [i \in 1..Len(es) |-> es[i].key]
KeySet(es) == {es[i].key : i \in 1..Len(es)}
contains_key(es, k) == k \in KeySet(es)
get_index_of(es, k) == CHOOSE i \in 1..Len(es) : es[i].key = k
map_get(es, k) == es[get_index_of(es, k)].entry

\* Faulty variants of shift_remove: IndexMap::swap_remove (the last pair
\* takes the place of the removed one), and a removal that only removes the
\* key when it is the first of the map.
swap_remove(es, k) ==
    IF ~contains_key(es, k) THEN es
    ELSE LET i == get_index_of(es, k)
             n == Len(es)
         IN  IF i = n THEN SubSeq(es, 1, n - 1)
             ELSE SubSeq([es EXCEPT ![i] = es[n]], 1, n - 1)

shift_remove_front(es, k) ==
    IF Len(es) > 0 /\ es[1].key = k THEN Tail(es) ELSE es

\* IndexMap::shift_remove: remove the key, the rest keep their order.
shift_remove(es, k) ==
    SelectSeq(es, LAMBDA p : p.key # k)

\* Faulty variant of map_insert: a present key gets the new value and keeps
\* the expiry it had.
map_insert_keep_expiry(es, k, e) ==
    IF contains_key(es, k)
    THEN [es EXCEPT ![get_index_of(es, k)] =
              [key |-> k, entry |-> [e EXCEPT !.expires_at = map_get(es, k).expires_at]]]
    ELSE Append(es, [key |-> k, entry |-> e])

\* Faulty variant of map_insert: a present key is taken out and appended at
\* the end with the new value.
map_insert_append(es, k, e) ==
    Append(SelectSeq(es, LAMBDA p : p.key # k), [key |-> k, entry |-> e])

\* Faulty variant of map_insert: a present key keeps its old value.
map_insert_keep(es, k, e) ==
    IF contains_key(es, k) THEN es ELSE Append(es, [key |-> k, entry |-> e])

\* IndexMap::insert: replace the value in place when the key is present
\* (the key keeps its position), else append at the end.
map_insert(es, k, e) ==
    IF contains_key(es, k)
    THEN [es EXCEPT ![get_index_of(es, k)] = [key |-> k, entry |-> e]]
    ELSE Append(es, [key |-> k, entry |-> e])

\* Faulty variant of move_index: the elements at `from` and `to` change
\* places (IndexMap::swap_indices).
move_index_swap(es, from, to) ==
    [i \in 1..Len(es) |-> IF i = from THEN es[to] ELSE IF i = to THEN es[from] ELSE es[i]]

\* Faulty variant of move_index: nothing moves.
move_index_noop(es, from, to) == es

\* IndexMap::move_index(from, to): the element at `from` ends at `to`, the
\* ones in between shift by one.
move_index(es, from, to) ==
    LET without == SubSeq(es, 1, from - 1) \o SubSeq(es, from + 1, Len(es))
    IN  SubSeq(without, 1, to - 1) \o <<es[from]>> \o SubSeq(without, to, Len(without))

\* Faulty variant of retain: an entry is dropped only strictly after its
\* expires_at.
retain_after(es, t) == SelectSeq(es, LAMBDA p : ~is_expired_at_gt(p.entry, t))

\* IndexMap::retain with the closure of cleanup_expired: keep the pairs that
\* are not expired at t, in order.
retain(es, t) == SelectSeq(es, LAMBDA p : ~is_expired_at(p.entry, t))

----------------------------------------------------------------------------
\* stats.rs

ZeroStats ==
    [hits |-> 0, misses |-> 0, evictions |-> 0, expirations |-> 0,
     size |-> 0, sets |-> 0, deletes |-> 0]

record_hit(s) == [s EXCEPT !.hits = @ + 1]
record_miss(s) == [s EXCEPT !.misses = @ + 1]
record_eviction(s) == [s EXCEPT !.evictions = @ + 1]
record_expiration(s) == [s EXCEPT !.expirations = @ + 1]
record_set(s) == [s EXCEPT !.sets = @ + 1]
record_delete(s) == [s EXCEPT !.deletes = @ + 1]
increment_size(s) == [s EXCEPT !.size = @ + 1]
\* fetch_sub on the AtomicU64 wraps modulo 2^64.  size holds the counter as
\* a signed representative: a negative n stands for the u64 value 2^64 + n.
decrement_size(s) == [s EXCEPT !.size = @ - 1]
\* Faulty variant of set_size: the store is dropped.
set_size_keep(s, n) == s

set_size(s, n) == [s EXCEPT !.size = n]

----------------------------------------------------------------------------
\* storage.rs: the private helpers, as functions of the map and the stats.

\* Faulty variant of evict_one: an entry that carries an expiry is removed
\* before the front entry.
evict_one_prefer_ttl(es, s) ==
    IF Len(es) > 0
    THEN LET with_ttl == SelectSeq(es, LAMBDA p : IsSome(p.entry.expires_at))
             victim == IF with_ttl # <<>> THEN with_ttl[1].key ELSE es[1].key
         IN  [entries |-> shift_remove(es, victim),
              stats |-> decrement_size(record_eviction(s))]
    ELSE [entries |-> es, stats |-> s]

\* Faulty variant of evict_one: the entry is removed and the eviction is not
\* recorded.
evict_one_unrecorded(es, s) ==
    IF Len(es) > 0
    THEN [entries |-> shift_remove(es, es[1].key), stats |-> decrement_size(s)]
    ELSE [entries |-> es, stats |-> s]

\* Faulty variant of evict_one: the last entry of the map is removed.
evict_one_last(es, s) ==
    IF Len(es) > 0
    THEN [entries |-> shift_remove(es, es[Len(es)].key),
          stats |-> decrement_size(record_eviction(s))]
    ELSE [entries |-> es, stats |-> s]

\* Db::evict_one: remove the first entry of the map, if there is one.
evict_one(es, s) ==
    IF Len(es) > 0
    THEN [entries |-> shift_remove(es, es[1].key),
          stats |-> decrement_size(record_eviction(s))]
    ELSE [entries |-> es, stats |-> s]

\* Faulty variant of evict_loop: while entries.len() > max_capacity.
RECURSIVE evict_loop_gt(_, _, _)
evict_loop_gt(es, s, max_capacity) ==
    IF Len(es) > max_capacity /\ Len(es) > 0
    THEN LET r == evict_one(es, s) IN evict_loop_gt(r.entries, r.stats, max_capacity)
    ELSE [entries |-> es, stats |-> s]

\* Faulty variant of evict_loop: room is made one entry too early.
RECURSIVE evict_loop_early(_, _, _)
evict_loop_early(es, s, max_capacity) ==
    IF Len(es) + 1 >= max_capacity /\ Len(es) > 0
    THEN LET r == evict_one(es, s) IN evict_loop_early(r.entries, r.stats, max_capacity)
    ELSE [entries |-> es, stats |-> s]

\* The loop of set_internal: while entries.len() >= max_capacity, evict_one.
\* On an empty map evict_one removes nothing, and with max_capacity = 0 the
\* code's loop would not end; the capacities of this model are positive, so
\* the second conjunct of the test never decides.
RECURSIVE evict_loop(_, _, _)
evict_loop(es, s, max_capacity) ==
    IF Len(es) >= max_capacity /\ Len(es) > 0
    THEN LET r == evict_one(es, s) IN evict_loop(r.entries, r.stats, max_capacity)
    ELSE [entries |-> es, stats |-> s]

\* Faulty variant of set_internal: size is incremented whether or not the key
\* is new.
set_internal_count_always(es, s, cfg, key, entry) ==
    LET room == IF IsSome(cfg.max_capacity) /\ ~contains_key(es, key)
                THEN evict_loop(es, s, Unwrap(cfg.max_capacity))
                ELSE [entries |-> es, stats |-> s]
    IN  [entries |-> map_insert(room.entries, key, entry),
         stats |-> record_set(increment_size(room.stats))]

\* Faulty variant of set_internal: a set is recorded only for a new key.
set_internal_sets_new_only(es, s, cfg, key, entry) ==
    LET room == IF IsSome(cfg.max_capacity) /\ ~contains_key(es, key)
                THEN evict_loop(es, s, Unwrap(cfg.max_capacity))
                ELSE [entries |-> es, stats |-> s]
        is_new == ~contains_key(room.entries, key)
    IN  [entries |-> map_insert(room.entries, key, entry),
         stats |-> IF is_new THEN record_set(increment_size(room.stats)) ELSE room.stats]

\* Faulty variant of set_internal: room is made whether or not the key is
\* present.
set_internal_evict_always(es, s, cfg, key, entry) ==
    LET room == IF IsSome(cfg.max_capacity)
                THEN evict_loop(es, s, Unwrap(cfg.max_capacity))
                ELSE [entries |-> es, stats |-> s]
        is_new == ~contains_key(room.entries, key)
        s1 == IF is_new THEN increment_size(room.stats) ELSE room.stats
    IN  [entries |-> map_insert(room.entries, key, entry),
         stats |-> record_set(s1)]

\* Db::set_internal from the write guard on, with the Entry already built.
set_internal(es, s, cfg, key, entry) ==
    LET room == IF IsSome(cfg.max_capacity) /\ ~contains_key(es, key)
                THEN evict_loop(es, s, Unwrap(cfg.max_capacity))
                ELSE [entries |-> es, stats |-> s]
        is_new == ~contains_key(room.entries, key)
        s1 == IF is_new THEN increment_size(room.stats) ELSE room.stats
    IN  [entries |-> map_insert(room.entries, key, entry),
         stats |-> record_set(s1)]

\* Faulty variant of remove_expired: size is decremented whether or not the
\* key was removed.
remove_expired_decrement_always(es, s, key, t) ==
    IF contains_key(es, key) /\ is_expired_at(map_get(es, key), t)
    THEN [entries |-> shift_remove(es, key), stats |-> decrement_size(s)]
    ELSE [entries |-> es, stats |-> decrement_size(s)]

\* Faulty variant of remove_expired: the key is removed without the second
\* check of its expiry.
remove_expired_unchecked(es, s, key, t) ==
    IF contains_key(es, key)
    THEN [entries |-> shift_remove(es, key), stats |-> decrement_size(s)]
    ELSE [entries |-> es, stats |-> s]

\* Db::remove_expired: under the write guard, remove the key if it is
\* (still) present and expired at the time of this second check.
remove_expired(es, s, key, t) ==
    IF contains_key(es, key) /\ is_expired_at(map_get(es, key), t)
    THEN [entries |-> shift_remove(es, key), stats |-> decrement_size(s)]
    ELSE [entries |-> es, stats |-> s]

----------------------------------------------------------------------------
\* Threads and calls.

Idle == [pc |-> "idle", op |-> "", key |-> "", value |-> None, ttl |-> None,
         t |-> 0, after |-> 0, entry |-> None]

InFlight == {t \in Threads : th[t].pc # "idle"}
Started == Len(hist) + Cardinality(InFlight)

\* A call may start on an idle thread while the run's budget lasts.  Idle
\* threads are indistinguishable, so the call is given to the lowest one.
CanStart(t) ==
    /\ th[t].pc = "idle"
    /\ \A u \in Threads : u < t => th[u].pc # "idle"
    /\ Started < MaxOps

\* Thread t leaves "idle" with a call in flight.
Begin(t, pc, op, key, value, ttl, entry) ==
    /\ th' = [th EXCEPT ![t] = [pc |-> pc, op |-> op, key |-> key, value |-> value,
                                ttl |-> ttl, t |-> now, after |-> Len(hist),
                                entry |-> entry]]
    /\ overlap' = (overlap \/ InFlight # {})

\* A call returns: it is appended to hist with the state it acted on.  t is
\* the clock reading the call took when it started, t2 the last one it took,
\* after the number of calls that had returned when it started.
Return(op, key, value, ttl, t, t2, after, ret) ==
    /\ hist' = Append(hist, [op |-> op, key |-> key, value |-> value, ttl |-> ttl,
                             t |-> t, t2 |-> t2, after |-> after, ret |-> ret])
    /\ pre' = [entries |-> entries, stats |-> stats, cloned |-> cloned]

\* The call of thread t returns.  set_internal reads no clock under the
\* guard; the second phase of get and contains does (is_expired, touch).
Finish(t, ret) ==
    /\ Return(th[t].op, th[t].key, th[t].value, th[t].ttl, th[t].t,
              IF th[t].pc = "set_internal" THEN th[t].t ELSE now, th[t].after, ret)
    /\ th' = [th EXCEPT ![t] = Idle]
    /\ UNCHANGED overlap

\* A call that takes one guard returns in the step it starts.
Atomic(op, key, ret) ==
    /\ Return(op, key, None, None, now, now, Len(hist), ret)
    /\ overlap' = (overlap \/ InFlight # {})
    /\ UNCHANGED th

\* Faulty variant of set_entry: the default TTL is not applied.
set_entry_no_default(cfg, value, t) == Entry_new(value, t)

\* Db::set: the Entry it hands to set_internal, built at clock reading t.
set_entry(cfg, value, t) ==
    IF IsSome(cfg.default_ttl)
    THEN Entry_with_expiration(value, t + Unwrap(cfg.default_ttl), t)
    ELSE Entry_new(value, t)

\* The engine after Db::new(cfg) and then n calls set(FillKeys[i], "v1"),
\* i = 1..n, all at clock reading 0.
RECURSIVE Filled(_, _)
Filled(cfg, n) ==
    IF n = 0
    THEN [entries |-> <<>>, stats |-> ZeroStats]
    ELSE LET p == Filled(cfg, n - 1)
         IN  set_internal(p.entries, p.stats, cfg, FillKeys[n], set_entry(cfg, "v1", 0))

\* A run starts from the engine Db::new(cfg) filled by n sets.
InitWith(cfg, n) ==
    /\ config = cfg
    /\ entries = Filled(cfg, n).entries
    /\ stats = Filled(cfg, n).stats
    /\ now = 0
    /\ th = [t \in Threads |-> Idle]
    /\ hist = <<>>
    /\ pre = [entries |-> entries, stats |-> stats, cloned |-> None]
    /\ overlap = FALSE
    /\ poisoned = FALSE
    /\ handles = <<"db">>
    /\ cloned = None
    /\ handler_existed = [t \in Threads |-> FALSE]

\* A new engine (n = 0) or one filled by MaxFill sets.
Init ==
    \E cfg \in [max_capacity : Capacities, default_ttl : DefaultTtls] :
        \E n \in {0, MaxFill} : InitWith(cfg, n)

\* The clock advances between any two steps of any thread.  A tick that no
\* call can observe any more (no call will start and none in flight reads
\* the clock again) is left out.
ClockWillBeRead ==
    \/ Started < MaxOps
    \/ \E t \in Threads : th[t].pc \in {"get_expired", "get_touch", "contains_expired"}

\* Faulty variant of Tick: expired entries leave the store as the clock
\* passes their expiry.
Tick_reaping ==
    /\ now < MaxTime
    /\ ClockWillBeRead
    /\ now' = now + 1
    /\ entries' = SelectSeq(entries, LAMBDA p : ~is_expired_at(p.entry, now + 1))
    /\ UNCHANGED <<stats, others, th, hist, pre, overlap>>

Tick ==
    /\ now < MaxTime
    /\ ClockWillBeRead
    /\ now' = now + 1
    /\ UNCHANGED <<entries, stats, others, th, hist, pre, overlap>>

\* Db::read_lock and Db::write_lock: the guarded map, None when the lock is
\* poisoned.
read_lock == IF poisoned THEN None ELSE Some(entries)

\* Faulty variant of write_lock: the guard is handed out although the lock is
\* poisoned.
write_lock_ignore_poison == Some(entries)

write_lock == IF poisoned THEN None ELSE Some(entries)

\* Db::set up to the write guard, on thread t: the Entry is built from the
\* clock.
set_build(t, key, value) ==
    /\ Begin(t, "set_internal", "set", key, Some(value), config.default_ttl,
             Some(set_entry(config, value, now)))
    /\ UNCHANGED <<entries, stats, others, now, hist, pre>>

\* A call of Db::set starts.
set(t, key, value) ==
    /\ CanStart(t)
    /\ set_build(t, key, value)

\* Db::set_with_ttl up to the write guard.
set_with_ttl(t, key, value, ttl) ==
    /\ CanStart(t)
    /\ Begin(t, "set_internal", "set_with_ttl", key, Some(value), Some(ttl),
             Some(Entry_with_expiration(value, now + ttl, now)))
    /\ UNCHANGED <<entries, stats, others, now, hist, pre>>

\* Db::set_internal under the write guard; with a poisoned lock it returns
\* at once.
set_internal_locked(t) ==
    /\ th[t].pc = "set_internal"
    /\ IF IsSome(write_lock)
       THEN LET r == set_internal(entries, stats, config, th[t].key, Unwrap(th[t].entry))
            IN  /\ entries' = r.entries
                /\ stats' = r.stats
       ELSE UNCHANGED <<entries, stats>>
    /\ Finish(t, None)
    /\ UNCHANGED <<others, now>>

\* Db::get under the read guard, on thread t: None at once when the lock is
\* poisoned, else miss, expired, or hit with the value cloned.
get_read(t, key) ==
    /\ IF ~IsSome(read_lock)
       THEN /\ Atomic("get", key, None)
            /\ UNCHANGED stats
       ELSE IF ~contains_key(entries, key)
       THEN /\ stats' = record_miss(stats)
            /\ Atomic("get", key, None)
       ELSE IF is_expired_at(map_get(entries, key), now)
       THEN /\ Begin(t, "get_expired", "get", key, None, None, None)
            /\ UNCHANGED <<stats, hist, pre>>
       ELSE /\ stats' = record_hit(stats)
            /\ Begin(t, "get_touch", "get", key, Some(map_get(entries, key).value), None, None)
            /\ UNCHANGED <<hist, pre>>
    /\ UNCHANGED <<entries, others, now>>

\* A call of Db::get starts.
get(t, key) ==
    /\ CanStart(t)
    /\ get_read(t, key)

\* Faulty variant of get_expired: the expiration is recorded, the miss is not.
get_expired_no_miss(t) ==
    /\ th[t].pc = "get_expired"
    /\ LET r == IF IsSome(write_lock)
                THEN remove_expired(entries, stats, th[t].key, now)
                ELSE [entries |-> entries, stats |-> stats]
       IN  /\ entries' = r.entries
           /\ stats' = record_expiration(r.stats)
    /\ Finish(t, None)
    /\ UNCHANGED <<others, now>>

\* Db::get, expired branch: remove_expired (which does nothing when the lock
\* is poisoned), then record_miss and record_expiration, return None.
get_expired(t) ==
    /\ th[t].pc = "get_expired"
    /\ LET r == IF IsSome(write_lock)
                THEN remove_expired(entries, stats, th[t].key, now)
                ELSE [entries |-> entries, stats |-> stats]
       IN  /\ entries' = r.entries
           /\ stats' = record_expiration(record_miss(r.stats))
    /\ Finish(t, None)
    /\ UNCHANGED <<others, now>>

\* Faulty variant of get_touch: a key that is gone is inserted again with the
\* value captured in the read phase.
get_touch_reinsert(t) ==
    /\ th[t].pc = "get_touch"
    /\ IF IsSome(write_lock) /\ contains_key(entries, th[t].key)
       THEN LET idx == get_index_of(entries, th[t].key)
                touched == [entries EXCEPT ![idx].entry = touch(@, now)]
            IN  entries' = move_index(touched, idx, Len(entries))
       ELSE entries' = map_insert(entries, th[t].key, Entry_new(Unwrap(th[t].value), now))
    /\ Finish(t, th[t].value)
    /\ UNCHANGED <<stats, others, now>>

\* Db::get, hit branch: under the write guard touch the entry and move it to
\* the end if the key is still there; return the cloned value either way.
get_touch(t) ==
    /\ th[t].pc = "get_touch"
    /\ IF IsSome(write_lock) /\ contains_key(entries, th[t].key)
       THEN LET idx == get_index_of(entries, th[t].key)
                touched == [entries EXCEPT ![idx].entry = touch(@, now)]
            IN  entries' = move_index(touched, idx, Len(entries))
       ELSE UNCHANGED entries
    /\ Finish(t, th[t].value)
    /\ UNCHANGED <<stats, others, now>>

\* Faulty variant of delete: the delete is recorded, and size decremented,
\* whether or not the key was there.
delete_record_always(t, key) ==
    /\ CanStart(t)
    /\ IF IsSome(write_lock)
       THEN /\ entries' = shift_remove(entries, key)
            /\ stats' = record_delete(decrement_size(stats))
            /\ Atomic("delete", key, contains_key(entries, key))
       ELSE /\ UNCHANGED <<entries, stats>>
            /\ Atomic("delete", key, FALSE)
    /\ UNCHANGED <<others, now>>

\* Db::delete, all under the write guard; false when the lock is poisoned.
delete(t, key) ==
    /\ CanStart(t)
    /\ IF IsSome(write_lock)
       THEN LET existed == contains_key(entries, key)
            IN  /\ entries' = shift_remove(entries, key)
                /\ stats' = IF existed THEN record_delete(decrement_size(stats)) ELSE stats
                /\ Atomic("delete", key, existed)
       ELSE /\ UNCHANGED <<entries, stats>>
            /\ Atomic("delete", key, FALSE)
    /\ UNCHANGED <<others, now>>

\* Faulty variant of contains: a live key is moved to the end of the order,
\* as get does.
contains_touching(t, key) ==
    /\ CanStart(t)
    /\ IF contains_key(entries, key) /\ is_expired_at(map_get(entries, key), now)
       THEN /\ Begin(t, "contains_expired", "contains", key, None, None, None)
            /\ UNCHANGED <<entries, hist, pre>>
       ELSE IF contains_key(entries, key)
       THEN /\ entries' = move_index(entries, get_index_of(entries, key), Len(entries))
            /\ Atomic("contains", key, TRUE)
       ELSE /\ Atomic("contains", key, FALSE)
            /\ UNCHANGED entries
    /\ UNCHANGED <<stats, others, now>>

\* Db::contains under the read guard; false when the lock is poisoned.
contains(t, key) ==
    /\ CanStart(t)
    /\ IF ~IsSome(read_lock)
       THEN Atomic("contains", key, FALSE)
       ELSE IF contains_key(entries, key) /\ is_expired_at(map_get(entries, key), now)
       THEN /\ Begin(t, "contains_expired", "contains", key, None, None, None)
            /\ UNCHANGED <<hist, pre>>
       ELSE Atomic("contains", key, contains_key(entries, key))
    /\ UNCHANGED <<entries, stats, others, now>>

\* Db::contains, expired branch: remove_expired (which does nothing when the
\* lock is poisoned), false.
contains_expired(t) ==
    /\ th[t].pc = "contains_expired"
    /\ LET r == IF IsSome(write_lock)
                THEN remove_expired(entries, stats, th[t].key, now)
                ELSE [entries |-> entries, stats |-> stats]
       IN  /\ entries' = r.entries
           /\ stats' = r.stats
    /\ Finish(t, FALSE)
    /\ UNCHANGED <<others, now>>

\* Db::len under the read guard; 0 when the lock is poisoned.
len == IF IsSome(read_lock) THEN Len(entries) ELSE 0

\* Db::is_empty.
is_empty == len = 0

\* Db::clear under the write guard; nothing when the lock is poisoned.
clear(t) ==
    /\ CanStart(t)
    /\ IF IsSome(write_lock)
       THEN /\ entries' = <<>>
            /\ stats' = set_size(stats, 0)
       ELSE UNCHANGED <<entries, stats>>
    /\ Atomic("clear", "", None)
    /\ UNCHANGED <<others, now>>

\* Db::cleanup_expired under the write guard, one clock reading for the scan;
\* the closure of retain records an expiration and decrements size once per
\* entry it drops.
RECURSIVE retain_stats(_, _, _)
retain_stats(es, s, t) ==
    IF es = <<>> THEN s
    ELSE retain_stats(Tail(es),
                      IF is_expired_at(Head(es).entry, t)
                      THEN decrement_size(record_expiration(s)) ELSE s,
                      t)

cleanup_expired(t) ==
    /\ CanStart(t)
    /\ IF IsSome(write_lock)
       THEN LET initial_len == Len(entries)
                kept == retain(entries, now)
            IN  /\ entries' = kept
                /\ stats' = retain_stats(entries, stats, now)
                /\ Atomic("cleanup_expired", "", initial_len - Len(kept))
       ELSE /\ UNCHANGED <<entries, stats>>
            /\ Atomic("cleanup_expired", "", 0)
    /\ UNCHANGED <<others, now>>

\* Any thread takes any step, with keys drawn from K.
Step(K) ==
    \/ Tick
    \/ \E t \in Threads, k \in K, v \in Values : set(t, k, v)
    \/ \E t \in Threads, k \in K, v \in Values, d \in Ttls : set_with_ttl(t, k, v, d)
    \/ \E t \in Threads : set_internal_locked(t)
    \/ \E t \in Threads, k \in K : get(t, k)
    \/ \E t \in Threads : get_expired(t)
    \/ \E t \in Threads : get_touch(t)
    \/ \E t \in Threads, k \in K : delete(t, k)
    \/ \E t \in Threads, k \in K : contains(t, k)
    \/ \E t \in Threads : contains_expired(t)
    \/ \E t \in Threads : clear(t)
    \/ \E t \in Threads : cleanup_expired(t)

Next == Step(Keys)

Spec == Init /\ [][Next]_vars

\* The engine of test_lru_eviction: max_capacity(3), filled to capacity by
\* set a, set b, set c; the run draws from one key more.
LruKeys == {"a", "b", "c", "d"}
LruCapacity == Some(3)

InitLru ==
    InitWith([max_capacity |-> LruCapacity, default_ttl |-> None], Unwrap(LruCapacity))

NextLru == Step(LruKeys)

SpecLru == InitLru /\ [][NextLru]_vars

\* An engine without capacity limit (CacheConfig::new(), max_capacity None),
\* with no default TTL or a default TTL of one clock unit, filled by MaxFill
\* sets.
UnboundedDefaultTtls == {None, Some(1)}

InitUnbounded ==
    \E d \in UnboundedDefaultTtls :
        InitWith([max_capacity |-> None, default_ttl |-> d], MaxFill)

NextUnbounded == Step(Keys)

SpecUnbounded == InitUnbounded /\ [][NextUnbounded]_vars

\* test_concurrent_writes: every thread runs MaxPairs times set(key, value)
\* and then get(key), each time with a key of its own, on a new engine whose
\* capacity is unlimited or the number of keys of the run.
MaxPairs == 1
PairKeys == <<<<"a", "b", "e">>, <<"c", "d", "f">>>>

\* The number of calls of thread t that returned: its keys are its own.
PairsDone(t) ==
    Cardinality({i \in 1..Len(hist) : \E m \in 1..Len(PairKeys[t]) : hist[i].key = PairKeys[t][m]})

InitPairs ==
    \E c \in {None, Some(Cardinality(Threads) * MaxPairs)} :
        InitWith([max_capacity |-> c, default_ttl |-> None], 0)

\* The clock advances between any two steps.
pair_tick ==
    /\ now < MaxTime
    /\ now' = now + 1
    /\ UNCHANGED <<entries, stats, others, th, hist, pre, overlap>>

\* Thread t starts the set of its next pair.
pair_set(t) ==
    /\ th[t].pc = "idle"
    /\ PairsDone(t) % 2 = 0
    /\ PairsDone(t) \div 2 < MaxPairs
    /\ \E v \in Values : set_build(t, PairKeys[t][PairsDone(t) \div 2 + 1], v)

\* Thread t starts the get of its pair.
pair_get(t) ==
    /\ th[t].pc = "idle"
    /\ PairsDone(t) % 2 = 1
    /\ get_read(t, PairKeys[t][(PairsDone(t) + 1) \div 2])

NextPairs ==
    \/ pair_tick
    \/ \E t \in Threads : pair_set(t)
    \/ \E t \in Threads : set_internal_locked(t)
    \/ \E t \in Threads : pair_get(t)
    \/ \E t \in Threads : get_touch(t)

SpecPairs == InitPairs /\ [][NextPairs]_vars

\* An engine without capacity limit whose default TTL, when there is one,
\* differs from the durations given to set_with_ttl; filled by MaxFill sets.
LongDefaultTtls == {None, Some(2)}

InitDefaultTtl ==
    \E d \in LongDefaultTtls :
        InitWith([max_capacity |-> None, default_ttl |-> d], MaxFill)

NextDefaultTtl == Step(Keys)

SpecDefaultTtl == InitDefaultTtl /\ [][NextDefaultTtl]_vars

\* CacheConfig with all four fields: Default, and the two builder methods
\* that set the background-cleanup fields.  No code of the engine, the Cache
\* or the server reads either field, and none starts a task.
CacheConfig_default ==
    [max_capacity |-> None, default_ttl |-> None,
     cleanup_interval |-> Some(60), background_cleanup |-> FALSE]

CacheConfig_cleanup_interval(cfg, interval) ==
    [cfg EXCEPT !.cleanup_interval = IF interval = 0 THEN None ELSE Some(interval)]

CacheConfig_background_cleanup(cfg, enabled) ==
    [cfg EXCEPT !.background_cleanup = enabled]

\* Faulty variant of CacheConfig_max_capacity: 0 is stored as a limit of 0.
CacheConfig_max_capacity_zero(cfg, capacity) ==
    [cfg EXCEPT !.max_capacity = Some(capacity)]

\* CacheConfig::max_capacity: 0 means no limit.
CacheConfig_max_capacity(cfg, capacity) ==
    [cfg EXCEPT !.max_capacity = IF capacity = 0 THEN None ELSE Some(capacity)]

\* The engines built without max_capacity (CacheConfig::default(): no
\* capacity limit, no default TTL, cleanup_interval 60, background_cleanup
\* off) and with max_capacity(0), new or filled by MaxFill sets.
InitNoLimit ==
    \E cfg \in {CacheConfig_default, CacheConfig_max_capacity(CacheConfig_default, 0)} :
        \E n \in {0, MaxFill} : InitWith(cfg, n)

NextNoLimit == Step(Keys)

SpecNoLimit == InitNoLimit /\ [][NextNoLimit]_vars

\* The engines whose configuration comes from the builder,
\* CacheConfig::new().max_capacity(c).build(), new or filled by MaxFill sets.
BuilderCapacities == {0, 1, 2}

InitBuilder ==
    \E c \in BuilderCapacities :
        \E n \in {0, MaxFill} : InitWith(CacheConfig_max_capacity(CacheConfig_default, c), n)

NextBuilder == Step(Keys)

SpecBuilder == InitBuilder /\ [][NextBuilder]_vars

\* An empty engine with cleanup_interval 1, background cleanup on or off.
InitBackground ==
    \E enabled \in BOOLEAN :
        InitWith(CacheConfig_background_cleanup(
                     CacheConfig_cleanup_interval(CacheConfig_default, 1), enabled), 0)

\* The steps the program can take are the client calls and the clock: the
\* program has no other thread or task.
NextBackground == Step(Keys)

\* The clock advances, and a call that waits for the write guard gets it.
\* Clients are under no obligation to call.
FairBackground ==
    /\ WF_vars(Tick)
    /\ \A t \in Threads :
          WF_vars(set_internal_locked(t) \/ get_expired(t) \/ get_touch(t)
                      \/ contains_expired(t))

SpecBackground == InitBackground /\ [][NextBackground]_vars /\ FairBackground

----------------------------------------------------------------------------
\* Cache handles and Db::clone.  Every method of Cache forwards to the same
\* method of the Db its Arc points to, so the calls of Step are the calls
\* made through any handle of the engine.

\* Faulty variant of Cache_clone: the new handle gets a copy of the engine.
Cache_clone_deep(t, h) ==
    /\ CanStart(t)
    /\ handles' = Append(handles, "cloned")
    /\ cloned' = Some([entries |-> entries, stats |-> ZeroStats])
    /\ Atomic("Cache::clone", "", None)
    /\ UNCHANGED <<entries, stats, config, handler_existed, poisoned, now>>

\* Cache::clone (derived): the new handle holds a clone of the Arc of handle
\* h, which points to the same Db.
Cache_clone(t, h) ==
    /\ CanStart(t)
    /\ handles' = Append(handles, handles[h])
    /\ Atomic("Cache::clone", "", None)
    /\ UNCHANGED <<entries, stats, config, handler_existed, poisoned, cloned, now>>

\* Faulty variant of Db_clone: the counters are copied with the entries.
Db_clone_with_stats(t) ==
    /\ CanStart(t)
    /\ ~IsSome(cloned)
    /\ cloned' = Some([entries |-> IF IsSome(read_lock) THEN entries ELSE <<>>,
                        stats |-> stats])
    /\ Atomic("Db::clone", "", None)
    /\ UNCHANGED <<entries, stats, config, handler_existed, poisoned, handles, now>>

\* Db::clone: a new Db with a copy of the map (empty when the lock is
\* poisoned), the same config and new counters.  A run makes one.
Db_clone(t) ==
    /\ CanStart(t)
    /\ ~IsSome(cloned)
    /\ cloned' = Some([entries |-> IF IsSome(read_lock) THEN entries ELSE <<>>,
                        stats |-> ZeroStats])
    /\ Atomic("Db::clone", "", None)
    /\ UNCHANGED <<entries, stats, config, handler_existed, poisoned, handles, now>>

\* Db::get as one step, for a Db that one thread uses: both guards are taken
\* at clock reading t.
Db_get(es, s, key, t) ==
    IF ~contains_key(es, key)
    THEN [entries |-> es, stats |-> record_miss(s), ret |-> None]
    ELSE IF is_expired_at(map_get(es, key), t)
    THEN LET r == remove_expired(es, s, key, t)
         IN  [entries |-> r.entries, stats |-> record_expiration(record_miss(r.stats)),
              ret |-> None]
    ELSE LET idx == get_index_of(es, key)
             touched == [es EXCEPT ![idx].entry = touch(@, t)]
         IN  [entries |-> move_index(touched, idx, Len(es)), stats |-> record_hit(s),
              ret |-> Some(map_get(es, key).value)]

\* A call on the Db that Db::clone returned leaves it as next and returns
\* ret.
OnClone(t, op, key, next, ret) ==
    /\ CanStart(t)
    /\ IsSome(cloned)
    /\ cloned' = Some(next)
    /\ Atomic(op, key, ret)
    /\ UNCHANGED <<entries, stats, config, handler_existed, poisoned, handles, now>>

\* set, get, delete and clear on the Db that Db::clone returned.
clone_set(t, key, value) ==
    /\ IsSome(cloned)
    /\ LET c == Unwrap(cloned)
       IN  OnClone(t, "clone.set", key,
                   set_internal(c.entries, c.stats, config, key, set_entry(config, value, now)),
                   None)

clone_get(t, key) ==
    /\ IsSome(cloned)
    /\ LET c == Unwrap(cloned)
           r == Db_get(c.entries, c.stats, key, now)
       IN  OnClone(t, "clone.get", key, [entries |-> r.entries, stats |-> r.stats], r.ret)

clone_delete(t, key) ==
    /\ IsSome(cloned)
    /\ LET c == Unwrap(cloned)
           existed == contains_key(c.entries, key)
       IN  OnClone(t, "clone.delete", key,
                   [entries |-> shift_remove(c.entries, key),
                    stats |-> IF existed THEN record_delete(decrement_size(c.stats))
                              ELSE c.stats],
                   existed)

clone_clear(t) ==
    /\ IsSome(cloned)
    /\ OnClone(t, "clone.clear", "",
               [entries |-> <<>>, stats |-> set_size(Unwrap(cloned).stats, 0)], None)

\* A filled engine with one Cache handle; handles are cloned, the engine is
\* cloned, and calls go to the engine and to its clone.
CloneKeys == {"a", "c"}

InitClone ==
    \E cfg \in [max_capacity : Capacities, default_ttl : DefaultTtls] :
        InitWith(cfg, MaxFill)

NextClone ==
    \/ Step(CloneKeys)
    \/ \E t \in Threads, h \in 1..Len(handles) : Cache_clone(t, h)
    \/ \E t \in Threads : Db_clone(t)
    \/ \E t \in Threads, k \in CloneKeys, v \in Values : clone_set(t, k, v)
    \/ \E t \in Threads, k \in CloneKeys : clone_get(t, k)
    \/ \E t \in Threads, k \in CloneKeys : clone_delete(t, k)
    \/ \E t \in Threads : clone_clear(t)

SpecClone == InitClone /\ [][NextClone]_vars

----------------------------------------------------------------------------
\* The server (bin/server.rs) and the legacy Db::write.  A request is the
\* sequence attrs of its words (buffer_to_array); a response is modelled as
\* the sequence of its parts, so that "ERR <message>" is <<"ERR", message>>
\* and "r Ok" is <<"r", "Ok">>; the empty response is <<>>.  Every
\* connection is a task of the multi-threaded runtime, handles one request
\* and shares the one Cache: the handlers of two requests interleave as the
\* calls of two threads do.

Words == {"set", "SET", "get", "del", "ping", "bogus"}

\* str::to_lowercase, on the words of the model.
to_lowercase(s) == IF s = "SET" THEN "set" ELSE s

\* command.rs, Command::get.
Command_get(s) ==
    CASE to_lowercase(s) = "set" -> "Set"
      [] to_lowercase(s) = "get" -> "Get"
      [] to_lowercase(s) \in {"delete", "del"} -> "Delete"
      [] to_lowercase(s) = "ping" -> "Ping"
      [] to_lowercase(s) \in {"stats", "info"} -> "Stats"
      [] OTHER -> "Invalid"

\* The requests the model sends: every word alone, with a key, and with a
\* key and a value.
Requests ==
    {<<w>> : w \in Words}
        \cup {<<w, k>> : w \in Words, k \in {"a"}}
        \cup {<<w, k, v>> : w \in Words, k \in {"a", "c"}, v \in {"v2"}}

\* process_command: the responses given without a call on the cache, None
\* for a request that goes on to the cache (or to the statistics).
process_command_early(command, attrs) ==
    CASE command = "Get" /\ Len(attrs) < 2 -> Some(<<"ERR", "missing key argument">>)
      [] command = "Set" /\ Len(attrs) < 3 -> Some(<<"ERR", "missing key or value argument">>)
      [] command = "Delete" /\ Len(attrs) < 2 -> Some(<<"ERR", "missing key argument">>)
      [] command = "Ping" -> Some(<<"PONG">>)
      [] command = "Invalid" -> Some(<<"ERR", "unknown command", attrs[1]>>)
      [] OTHER -> None

\* Faulty variant of answer_early: a set request without a value stores the
\* key with an empty value before it is answered.
answer_early_storing(t, attrs) ==
    /\ CanStart(t)
    /\ IsSome(process_command_early(Command_get(attrs[1]), attrs))
    /\ LET r == IF Command_get(attrs[1]) = "Set" /\ Len(attrs) = 2
                THEN set_internal(entries, stats, config, attrs[2], set_entry(config, "", now))
                ELSE [entries |-> entries, stats |-> stats]
       IN  /\ entries' = r.entries
           /\ stats' = r.stats
    /\ Return("request", "", Some(attrs), None, now, now, Len(hist),
              Unwrap(process_command_early(Command_get(attrs[1]), attrs)))
    /\ overlap' = (overlap \/ InFlight # {})
    /\ UNCHANGED <<th, others, now>>

\* handle_connection with a request that process_command answers without a
\* call on the cache.
answer_early(t, attrs) ==
    /\ CanStart(t)
    /\ IsSome(process_command_early(Command_get(attrs[1]), attrs))
    /\ Return("request", "", Some(attrs), None, now, now, Len(hist),
              Unwrap(process_command_early(Command_get(attrs[1]), attrs)))
    /\ overlap' = (overlap \/ InFlight # {})
    /\ UNCHANGED <<entries, stats, th, others, now>>

\* process_command, Command::Set (the same code as Db::write): first
\* `existed = cache.contains(key)`, here the part of contains under the read
\* guard.
handle_set(t, attrs) ==
    /\ CanStart(t)
    /\ Command_get(attrs[1]) = "Set" /\ Len(attrs) >= 3
    /\ LET key == attrs[2]
           expired == /\ IsSome(read_lock) /\ contains_key(entries, key)
                      /\ is_expired_at(map_get(entries, key), now)
       IN  /\ Begin(t, IF expired THEN "handle_set_expired" ELSE "handle_set_build",
                    "request.set", key, Some(attrs[3]), config.default_ttl, None)
           /\ handler_existed' =
                 [handler_existed EXCEPT ![t] = IsSome(read_lock) /\ ~expired
                                                  /\ contains_key(entries, key)]
    /\ UNCHANGED <<entries, stats, config, poisoned, handles, cloned, now, hist, pre>>

\* The expired branch of that contains: remove_expired under the write
\* guard, false.
handle_set_expired(t) ==
    /\ th[t].pc = "handle_set_expired"
    /\ LET r == IF IsSome(write_lock)
                THEN remove_expired(entries, stats, th[t].key, now)
                ELSE [entries |-> entries, stats |-> stats]
       IN  /\ entries' = r.entries
           /\ stats' = r.stats
    /\ th' = [th EXCEPT ![t].pc = "handle_set_build"]
    /\ UNCHANGED <<others, now, hist, pre, overlap>>

\* Then cache.set(key, value), up to the write guard: the Entry is built
\* from the clock.
handle_set_build(t) ==
    /\ th[t].pc = "handle_set_build"
    /\ th' = [th EXCEPT ![t].pc = "handle_set_locked",
                        ![t].entry = Some(set_entry(config, Unwrap(th[t].value), now))]
    /\ UNCHANGED <<entries, stats, others, now, hist, pre, overlap>>

\* set_internal under the write guard, and the response from `existed`.
handle_set_locked(t) ==
    /\ th[t].pc = "handle_set_locked"
    /\ IF IsSome(write_lock)
       THEN LET r == set_internal(entries, stats, config, th[t].key, Unwrap(th[t].entry))
            IN  /\ entries' = r.entries
                /\ stats' = r.stats
       ELSE UNCHANGED <<entries, stats>>
    /\ Finish(t, IF handler_existed[t] THEN <<"r", "Ok">> ELSE <<"Ok">>)
    /\ UNCHANGED <<others, now>>

\* The server's cache (a capacity limit, no default TTL), new or filled; the
\* clock, the requests, and calls of delete and set_with_ttl made on the
\* same engine by users of the library.
InitServer ==
    \E cfg \in [max_capacity : Capacities, default_ttl : DefaultTtls] :
        \E n \in {0, MaxFill} : InitWith(cfg, n)

NextServer ==
    \/ pair_tick
    \/ \E t \in Threads, attrs \in Requests : answer_early(t, attrs)
    \/ \E t \in Threads, attrs \in Requests : handle_set(t, attrs)
    \/ \E t \in Threads : handle_set_expired(t)
    \/ \E t \in Threads : handle_set_build(t)
    \/ \E t \in Threads : handle_set_locked(t)
    \/ \E t \in Threads, k \in {"a", "c"} : delete(t, k)
    \/ \E t \in Threads, k \in {"a", "c"}, v \in Values, d \in Ttls : set_with_ttl(t, k, v, d)
    \/ \E t \in Threads : set_internal_locked(t)

SpecServer == InitServer /\ [][NextServer]_vars

----------------------------------------------------------------------------
\* stats.rs: hit_rate and snapshot.  Every getter is one relaxed load, so a
\* snapshot is a sequence of loads that the calls of other threads
\* interleave with; th[t].value holds the values loaded so far.  The f64
\* result of hit_rate is modelled as the exact fraction num / den; the
\* rounding of the two floating-point operations is not modelled.

MaxHits == 2
MaxMisses == 2

\* Faulty variant of hit_rate_value: hits are divided by misses.
hit_rate_value_by_misses(hits, misses) ==
    IF misses = 0 THEN [num |-> 0, den |-> 1] ELSE [num |-> hits * 100, den |-> misses]

\* CacheStats::hit_rate from the two values it loaded:
\* (hits as f64 / total as f64) * 100.0, and 0.0 when total is 0.
hit_rate_value(hits, misses) ==
    LET total == hits + misses
    IN  IF total = 0 THEN [num |-> 0, den |-> 1] ELSE [num |-> hits * 100, den |-> total]

\* The fields of StatsSnapshot in the order snapshot() loads them.
SnapshotFields == <<"hits", "misses", "evictions", "expirations", "size", "sets", "deletes">>

\* CacheStats::snapshot starts: the first load.
snapshot(t) ==
    /\ CanStart(t)
    /\ Begin(t, "snapshot_load", "snapshot", "", Some(<<stats.hits>>), None, None)
    /\ UNCHANGED <<entries, stats, others, now, hist, pre>>

\* The next load of snapshot; after the last one it calls hit_rate.
snapshot_load(t) ==
    /\ th[t].pc = "snapshot_load"
    /\ LET loaded == Unwrap(th[t].value)
           field == SnapshotFields[Len(loaded) + 1]
       IN  th' = [th EXCEPT ![t].value = Some(Append(loaded, stats[field])),
                            ![t].pc = IF Len(loaded) + 1 = Len(SnapshotFields)
                                      THEN "hit_rate_hits" ELSE "snapshot_load"]
    /\ UNCHANGED <<entries, stats, others, now, hist, pre, overlap>>

\* A call of CacheStats::hit_rate starts: it loads hits.
hit_rate(t) ==
    /\ CanStart(t)
    /\ Begin(t, "hit_rate_misses", "hit_rate", "", Some(<<stats.hits>>), None, None)
    /\ UNCHANGED <<entries, stats, others, now, hist, pre>>

\* hit_rate called by snapshot loads hits.
hit_rate_hits(t) ==
    /\ th[t].pc = "hit_rate_hits"
    /\ th' = [th EXCEPT ![t].value = Some(Append(Unwrap(th[t].value), stats.hits)),
                        ![t].pc = "hit_rate_misses"]
    /\ UNCHANGED <<entries, stats, others, now, hist, pre, overlap>>

\* hit_rate loads misses and computes the rate from its two loads; snapshot
\* returns the StatsSnapshot of its loads with it.
hit_rate_misses(t) ==
    /\ th[t].pc = "hit_rate_misses"
    /\ LET loaded == Unwrap(th[t].value)
           rate == hit_rate_value(loaded[Len(loaded)], stats.misses)
       IN  Finish(t, IF th[t].op = "snapshot"
                     THEN [hits |-> loaded[1], misses |-> loaded[2],
                           evictions |-> loaded[3], expirations |-> loaded[4],
                           size |-> loaded[5], sets |-> loaded[6],
                           deletes |-> loaded[7], hit_rate |-> rate]
                     ELSE rate)
    /\ UNCHANGED <<entries, stats, others, now>>

\* The engine after MaxFill sets, h gets of a stored key and m gets of a key
\* that is not stored, one call after the other.
RECURSIVE AfterGets(_, _, _)
AfterGets(cfg, h, m) ==
    IF h = 0 /\ m = 0 THEN Filled(cfg, MaxFill)
    ELSE LET p == IF m > 0 THEN AfterGets(cfg, h, m - 1) ELSE AfterGets(cfg, h - 1, 0)
             r == Db_get(p.entries, p.stats, IF m > 0 THEN "z" ELSE FillKeys[1], 0)
         IN  [entries |-> r.entries, stats |-> r.stats]

InitStats ==
    \E cfg \in [max_capacity : Capacities, default_ttl : DefaultTtls] :
        \E h \in 0..MaxHits, m \in 0..MaxMisses :
            /\ config = cfg
            /\ entries = AfterGets(cfg, h, m).entries
            /\ stats = AfterGets(cfg, h, m).stats
            /\ now = 0
            /\ th = [t \in Threads |-> Idle]
            /\ hist = <<>>
            /\ pre = [entries |-> entries, stats |-> stats, cloned |-> None]
            /\ overlap = FALSE
            /\ poisoned = FALSE
            /\ handles = <<"db">>
            /\ cloned = None
            /\ handler_existed = [t \in Threads |-> FALSE]

\* Readers of the statistics run with gets, the calls that change hits and
\* misses.
NextStats ==
    \/ \E t \in Threads : snapshot(t)
    \/ \E t \in Threads : snapshot_load(t)
    \/ \E t \in Threads : hit_rate(t)
    \/ \E t \in Threads : hit_rate_hits(t)
    \/ \E t \in Threads : hit_rate_misses(t)
    \/ \E t \in Threads, k \in Keys : get(t, k)
    \/ \E t \in Threads : get_touch(t)

SpecStats == InitStats /\ [][NextStats]_vars

----------------------------------------------------------------------------
\* The locking discipline of Db, with the acquisition of a guard and the
\* section under it as separate steps.  th[t].pc tells what thread t holds
\* and waits for: "want_read" and "want_write" wait with no guard held,
\* "read_held" and "write_held" hold the guard.  RwLock::read blocks while a
\* writer holds the lock, RwLock::write while anyone does.  A section ends
\* by dropping its guard (drop(entries), or the end of the guard's scope).

\* The threads that hold a read guard.  No operation of Db asks for the
\* write guard while its read guard is alive ("read_held_want_write").
Readers == {t \in Threads : th[t].pc \in {"read_held", "read_held_want_write"}}
Writers == {t \in Threads : th[t].pc = "write_held"}

LockOps == {"get", "contains", "set", "set_with_ttl", "delete", "clear", "cleanup_expired"}

\* A call starts.  get and contains first ask for the read guard; set and
\* set_with_ttl build their Entry from the clock and ask for the write
\* guard; delete, clear and cleanup_expired ask for the write guard.
lock_call(t, op, key, value, ttl) ==
    /\ CanStart(t)
    /\ op \in {"set", "set_with_ttl"} <=> IsSome(value)
    /\ op = "set_with_ttl" <=> IsSome(ttl)
    /\ op \in {"clear", "cleanup_expired"} <=> key = ""
    /\ Begin(t, IF op \in {"get", "contains"} THEN "want_read" ELSE "want_write",
             op, key, value, ttl,
             IF op = "set" THEN Some(set_entry(config, Unwrap(value), now))
             ELSE IF op = "set_with_ttl"
             THEN Some(Entry_with_expiration(Unwrap(value), now + Unwrap(ttl), now))
             ELSE None)
    /\ UNCHANGED <<entries, stats, others, now, hist, pre>>

\* RwLock::read returns.
acquire_read(t) ==
    /\ th[t].pc = "want_read"
    /\ Writers = {}
    /\ th' = [th EXCEPT ![t].pc = "read_held"]
    /\ UNCHANGED <<entries, stats, others, now, hist, pre, overlap>>

\* RwLock::write returns.
acquire_write(t) ==
    /\ th[t].pc \in {"want_write", "read_held_want_write"}
    /\ Readers = {} /\ Writers = {}
    /\ th' = [th EXCEPT ![t].pc = "write_held"]
    /\ UNCHANGED <<entries, stats, others, now, hist, pre, overlap>>

\* Faulty variant of read_section: get and contains keep the read guard
\* while they ask for the write guard.
read_section_keep_guard(t) ==
    /\ th[t].pc = "read_held"
    /\ LET key == th[t].key
           present == contains_key(entries, key)
           expired == present /\ is_expired_at(map_get(entries, key), now)
       IN  IF expired
           THEN /\ th' = [th EXCEPT ![t].pc = "read_held_want_write"]
                /\ UNCHANGED <<stats, hist, pre, overlap>>
           ELSE IF th[t].op = "get" /\ present
           THEN /\ stats' = record_hit(stats)
                /\ th' = [th EXCEPT ![t].pc = "read_held_want_write",
                                    ![t].value = Some(map_get(entries, key).value)]
                /\ UNCHANGED <<hist, pre, overlap>>
           ELSE /\ stats' = IF th[t].op = "get" THEN record_miss(stats) ELSE stats
                /\ Finish(t, IF th[t].op = "get" THEN None ELSE present)
    /\ UNCHANGED <<entries, others, now>>

\* The section of get and of contains under the read guard, up to the drop
\* of the guard: the call returns, or goes on to ask for the write guard.
read_section(t) ==
    /\ th[t].pc = "read_held"
    /\ LET key == th[t].key
           present == contains_key(entries, key)
           expired == present /\ is_expired_at(map_get(entries, key), now)
       IN  IF expired
           THEN /\ th' = [th EXCEPT ![t].pc = "want_write"]
                /\ UNCHANGED <<stats, hist, pre, overlap>>
           ELSE IF th[t].op = "get" /\ present
           THEN /\ stats' = record_hit(stats)
                /\ th' = [th EXCEPT ![t].pc = "want_write",
                                    ![t].value = Some(map_get(entries, key).value)]
                /\ UNCHANGED <<hist, pre, overlap>>
           ELSE /\ stats' = IF th[t].op = "get" THEN record_miss(stats) ELSE stats
                /\ Finish(t, IF th[t].op = "get" THEN None ELSE present)
    /\ UNCHANGED <<entries, others, now>>

\* What the section under the write guard does and returns, by operation:
\* set_internal, the touch step of get, remove_expired for get and for
\* contains, delete, clear, cleanup_expired.
write_effect(t) ==
    LET op == th[t].op
        key == th[t].key
    IN  CASE op \in {"set", "set_with_ttl"} ->
               set_internal(entries, stats, config, key, Unwrap(th[t].entry))
                   @@ [ret |-> None]
          [] op = "get" /\ IsSome(th[t].value) ->
               [entries |-> IF contains_key(entries, key)
                            THEN LET idx == get_index_of(entries, key)
                                     touched == [entries EXCEPT ![idx].entry = touch(@, now)]
                                 IN  move_index(touched, idx, Len(entries))
                            ELSE entries,
                stats |-> stats, ret |-> th[t].value]
          [] op = "get" /\ ~IsSome(th[t].value) ->
               LET r == remove_expired(entries, stats, key, now)
               IN  [entries |-> r.entries,
                    stats |-> record_expiration(record_miss(r.stats)), ret |-> None]
          [] op = "contains" ->
               remove_expired(entries, stats, key, now) @@ [ret |-> FALSE]
          [] op = "delete" ->
               [entries |-> shift_remove(entries, key),
                stats |-> IF contains_key(entries, key)
                          THEN record_delete(decrement_size(stats)) ELSE stats,
                ret |-> contains_key(entries, key)]
          [] op = "clear" ->
               [entries |-> <<>>, stats |-> set_size(stats, 0), ret |-> None]
          [] op = "cleanup_expired" ->
               [entries |-> retain(entries, now),
                stats |-> retain_stats(entries, stats, now),
                ret |-> Len(entries) - Len(retain(entries, now))]

\* The section under the write guard, up to the drop of the guard; the call
\* returns.
write_section(t) ==
    /\ th[t].pc = "write_held"
    /\ entries' = write_effect(t).entries
    /\ stats' = write_effect(t).stats
    /\ Finish(t, write_effect(t).ret)
    /\ UNCHANGED <<others, now>>

InitLocks ==
    \E cfg \in [max_capacity : Capacities, default_ttl : UnboundedDefaultTtls] :
        InitWith(cfg, MaxFill)

NextLocks ==
    \/ pair_tick
    \/ \E t \in Threads, op \in LockOps, k \in {"a", "c", ""}, v \in {None, Some("v2")},
          d \in {None} \cup {Some(x) : x \in Ttls} : lock_call(t, op, k, v, d)
    \/ \E t \in Threads : acquire_read(t)
    \/ \E t \in Threads : read_section(t)
    \/ \E t \in Threads : acquire_write(t)
    \/ \E t \in Threads : write_section(t)

\* The lock is fair to every waiting thread, and a thread that holds a guard
\* runs its section to the end.
FairLocks ==
    \A t \in Threads :
        /\ SF_vars(acquire_read(t))
        /\ SF_vars(acquire_write(t))
        /\ WF_vars(read_section(t))
        /\ WF_vars(write_section(t))

SpecLocks == InitLocks /\ [][NextLocks]_vars /\ FairLocks

----------------------------------------------------------------------------
\* Lock poisoning.  None of the guarded sections of Db can panic, so the lock
\* is poisoned only when a thread is terminated abnormally while it holds the
\* write guard: RwLock then fails every later read() and write().  The event
\* is recorded in hist as the call "panic", which marks what came after it.
write_guard_panic(t) ==
    /\ CanStart(t)
    /\ ~poisoned
    /\ poisoned' = TRUE
    /\ Atomic("panic", "", None)
    /\ UNCHANGED <<entries, stats, config, handler_existed, handles, cloned, now>>

InitPoison ==
    \E cfg \in [max_capacity : Capacities, default_ttl : DefaultTtls] :
        InitWith(cfg, MaxFill)

NextPoison ==
    \/ Step(Keys)
    \/ \E t \in Threads : write_guard_panic(t)

SpecPoison == InitPoison /\ [][NextPoison]_vars

\* The same runs, on a store whose entries carry the default TTL, so that a get
\* can be between its two guards on an expired key when the lock is poisoned.
InitPoisonTtl ==
    InitWith([max_capacity |-> Some(2), default_ttl |-> Some(1)], MaxFill)

SpecPoisonTtl == InitPoisonTtl /\ [][NextPoison]_vars

----------------------------------------------------------------------------
\* Properties.  N is the number of calls that returned; hist[N] is the last
\* one, pre the store and the counters it acted on, entries the store it
\* left (only a returning step changes entries).

N == Len(hist)
IsSetCall(c) == c.op \in {"set", "set_with_ttl"}
Capacity == Unwrap(config.max_capacity)

\* Call j started after call i had returned.
StartedAfter(j, i) == hist[j].after >= i

\* No set of key k returned after call i and before call j.
NoSetBetween(k, i, j) ==
    \A m \in (i + 1)..(j - 1) : ~(IsSetCall(hist[m]) /\ hist[m].key = k)

\* The last two calls are set(k, v) with no TTL and then get(k), one after
\* the other on one thread.
C1_Case ==
    /\ ~overlap
    /\ N >= 2
    /\ hist[N - 1].op = "set" /\ hist[N - 1].ttl = None
    /\ hist[N].op = "get" /\ hist[N].key = hist[N - 1].key

\* C1: in a single-threaded run with no TTL in force, set(k, v) immediately
\* followed by get(k) returns Some(v), whatever the store held before.
C1_SetThenGet ==
    C1_Case => hist[N].ret = hist[N - 1].value

\* The set of C1 evicted an entry to make room.
C1_Witness ==
    /\ C1_Case
    /\ IsSome(hist[N].ret)
    /\ stats.evictions = 1 /\ N = 2

\* C2: with max_capacity = c the store never holds more than c entries, in
\* every state of every interleaving.
C2_CapacityBound ==
    IsSome(config.max_capacity) => Len(entries) <= Capacity

\* A full store after an eviction, in a run with overlapping calls.
C2_Witness ==
    /\ IsSome(config.max_capacity) /\ Len(entries) = Capacity
    /\ stats.evictions >= 1
    /\ overlap

\* The run consisted of sets of distinct keys that were not in the store:
\* the n sets before the run started and then the calls of hist.
OnlyNewSets ==
    /\ \A i \in 1..N : IsSetCall(hist[i])
    /\ stats.sets - N \in 0..Len(FillKeys)
    /\ \A i \in 1..N : \A j \in 1..(stats.sets - N) : hist[i].key # FillKeys[j]
    /\ \A i, j \in 1..N : i # j => hist[i].key # hist[j].key

\* The keys inserted since Db::new, in insertion order.
Inserted == SubSeq(FillKeys, 1, stats.sets - N) \o [i \in 1..N |-> hist[i].key]

\* C3: after n > c distinct new keys were inserted and nothing else was
\* called, the store holds the last c keys inserted, in insertion order,
\* and the n - c first ones were evicted.
C3_FifoEviction ==
    (OnlyNewSets /\ IsSome(config.max_capacity) /\ Len(Inserted) > Capacity)
        => /\ KeysOf(entries) = SubSeq(Inserted, Len(Inserted) - Capacity + 1, Len(Inserted))
           /\ stats.evictions = Len(Inserted) - Capacity
           /\ \A i \in 1..(Len(Inserted) - Capacity) : ~contains_key(entries, Inserted[i])

C3_Witness ==
    /\ OnlyNewSets /\ IsSome(config.max_capacity) /\ Len(Inserted) > Capacity
    /\ N >= 1

\* C4: in a run without concurrent calls, a get(k) that hits leaves k at the
\* end of the store order and the other keys in their order, so the next
\* set of a new key on a full store evicts the front entry, which is not k;
\* with capacity 3 and a, b, c set: get(a), set(d) leaves c, a, d.
C4_GetProtects ==
    /\ (~overlap /\ N >= 1 /\ hist[N].op = "get" /\ IsSome(hist[N].ret))
        => KeysOf(entries) = KeysOf(shift_remove(pre.entries, hist[N].key)) \o <<hist[N].key>>
    /\ (/\ ~overlap /\ N >= 2
        /\ hist[N - 1].op = "get" /\ IsSome(hist[N - 1].ret)
        /\ IsSetCall(hist[N]) /\ ~contains_key(pre.entries, hist[N].key)
        /\ IsSome(config.max_capacity) /\ Capacity >= 2 /\ Len(pre.entries) = Capacity)
        => /\ pre.entries[1].key # hist[N - 1].key
           /\ contains_key(entries, hist[N - 1].key)
           /\ KeysOf(entries) = Tail(KeysOf(pre.entries)) \o <<hist[N].key>>
    /\ (/\ ~overlap /\ N = 2 /\ config.max_capacity = Some(3)
        /\ hist[1].op = "get" /\ hist[1].key = "a"
        /\ IsSetCall(hist[2]) /\ hist[2].key = "d")
        => /\ KeysOf(entries) = <<"c", "a", "d">>
           /\ len = 3

\* The scenario of test_lru_eviction ran.
C4_Witness ==
    /\ ~overlap /\ N = 2 /\ config.max_capacity = Some(3)
    /\ hist[1].op = "get" /\ hist[1].key = "a" /\ IsSome(hist[1].ret)
    /\ hist[2].op = "set" /\ hist[2].key = "d"
    /\ KeySet(entries) = {"a", "c", "d"}

\* C5: a set or set_with_ttl of a key that is in the store does not change
\* the store length, removes no key and leaves the evictions counter, also
\* when the store is full.
C5_OverwriteFrame ==
    (N >= 1 /\ IsSetCall(hist[N]) /\ contains_key(pre.entries, hist[N].key))
        => /\ Len(entries) = Len(pre.entries)
           /\ KeysOf(entries) = KeysOf(pre.entries)
           /\ stats.evictions = pre.stats.evictions

\* An overwrite on a full store.
C5_Witness ==
    /\ N >= 1 /\ IsSetCall(hist[N]) /\ contains_key(pre.entries, hist[N].key)
    /\ IsSome(config.max_capacity) /\ Len(pre.entries) = Capacity

\* The number of evictions the last returning step made.
Evicted == stats.evictions - pre.stats.evictions

\* C6: only a set of a key that is not in a full store evicts, what it
\* removes is the front of the store order, and a set that does not evict
\* removes nothing.
C6_EvictsFront ==
    /\ Evicted >= 0
    /\ Evicted > 0
        => /\ N >= 1 /\ IsSetCall(hist[N])
           /\ ~contains_key(pre.entries, hist[N].key)
           /\ IsSome(config.max_capacity) /\ Len(pre.entries) >= Capacity
           /\ Evicted = Len(pre.entries) - Capacity + 1
           /\ KeysOf(entries) =
                SubSeq(KeysOf(pre.entries), Evicted + 1, Len(pre.entries)) \o <<hist[N].key>>
    /\ (N >= 1 /\ IsSetCall(hist[N]) /\ Evicted = 0)
        => KeySet(pre.entries) \subseteq KeySet(entries)

\* A set evicted while another call was in flight.
C6_Witness ==
    /\ Evicted = 1 /\ overlap
    /\ N >= 1 /\ IsSetCall(hist[N])
    /\ ~contains_key(entries, pre.entries[1].key)

\* The entry with the oldest last_accessed is at the front.
SortedByLastAccessed(es) ==
    \A i, j \in 1..Len(es) : i < j => es[i].entry.last_accessed <= es[j].entry.last_accessed

\* C7: the store order is sorted by last_accessed in every state, also after
\* a set overwrote a key, so an eviction removes an entry whose
\* last_accessed is the oldest of the store.
C7_OrderIsRecency ==
    /\ SortedByLastAccessed(entries)
    /\ Evicted > 0
        => \A i \in 1..Len(pre.entries) :
              pre.entries[1].entry.last_accessed <= pre.entries[i].entry.last_accessed

\* Calls i < j of a run without concurrent calls: set_with_ttl(k, v, d) and
\* a get(k), with only reads and deletes of other keys in between.
TtlThenGet(i, j) ==
    /\ ~overlap
    /\ hist[i].op = "set_with_ttl"
    /\ hist[j].op = "get" /\ hist[j].key = hist[i].key
    /\ \A m \in (i + 1)..(j - 1) :
          hist[m].op \in {"get", "contains", "delete"} /\ hist[m].key # hist[i].key

\* The instant the entry of set call i expires: t + d.
ExpiryOf(i) == hist[i].t + Unwrap(hist[i].ttl)

\* C8: after set_with_ttl(k, v, d) at time t and no later write to k, a
\* get(k) at a time before t + d returns Some(v); a get(k) at t + d or later
\* returns None, removes the entry, and adds one to misses and one to
\* expirations.
C8_TtlExpiry ==
    \A i \in 1..N : \A j \in (i + 1)..N :
        TtlThenGet(i, j)
            => /\ hist[j].t < ExpiryOf(i) => hist[j].ret = hist[i].value
               /\ hist[j].t >= ExpiryOf(i) => hist[j].ret = None
               /\ (j = N /\ hist[j].t >= ExpiryOf(i))
                    => /\ contains_key(pre.entries, hist[j].key)
                       /\ ~contains_key(entries, hist[j].key)
                       /\ stats.misses = pre.stats.misses + 1
                       /\ stats.expirations = pre.stats.expirations + 1

\* A get found the entry expired and removed it.
C8_Witness ==
    /\ N = 2 /\ TtlThenGet(1, 2)
    /\ hist[2].t >= ExpiryOf(1)
    /\ hist[2].ret = None
    /\ stats.expirations = 1

\* C9: delete(k) returns true exactly when k was in the store when delete
\* held the write guard, and leaves k absent; until a set of k returns,
\* every later delete(k) returns false, get(k) None and contains(k) false.
C9_Delete ==
    /\ (N >= 1 /\ hist[N].op = "delete")
        => /\ hist[N].ret = contains_key(pre.entries, hist[N].key)
           /\ ~contains_key(entries, hist[N].key)
    /\ \A i \in 1..N : \A j \in (i + 1)..N :
          (/\ hist[i].op = "delete" /\ hist[j].key = hist[i].key
           /\ StartedAfter(j, i) /\ NoSetBetween(hist[i].key, i, j))
            => /\ hist[j].op = "delete" => hist[j].ret = FALSE
               /\ hist[j].op = "get" => hist[j].ret = None
               /\ hist[j].op = "contains" => hist[j].ret = FALSE

\* A key was deleted twice: true, then false.
C9_Witness ==
    /\ N = 2
    /\ hist[1].op = "delete" /\ hist[1].ret = TRUE
    /\ hist[2].op = "delete" /\ hist[2].key = hist[1].key /\ hist[2].ret = FALSE

\* C10: clear leaves the store empty and the size counter 0, the other six
\* counters as they were; until a set of k returns, every later get(k)
\* returns None.
C10_Clear ==
    /\ (N >= 1 /\ hist[N].op = "clear")
        => /\ entries = <<>> /\ len = 0
           /\ stats = [pre.stats EXCEPT !.size = 0]
    /\ \A i \in 1..N : \A j \in (i + 1)..N :
          (/\ hist[i].op = "clear" /\ hist[j].op = "get"
           /\ StartedAfter(j, i) /\ NoSetBetween(hist[j].key, i, j))
            => hist[j].ret = None

\* clear ran on a store that held entries, with counters that were not 0.
C10_Witness ==
    /\ N >= 1 /\ hist[N].op = "clear"
    /\ Len(pre.entries) > 0
    /\ pre.stats.size > 0 /\ pre.stats.sets > 0 /\ pre.stats.hits > 0

\* The counters as the last returning step left them: since then only gets
\* that started after it and have not returned recorded a hit.
StatsAtReturn ==
    [stats EXCEPT !.hits = @ - Cardinality({t \in Threads :
                                  th[t].pc = "get_touch" /\ th[t].after = N})]

\* C11: a contains(k) that returns true changes nothing: the store (order,
\* values, every last_accessed) and the seven counters are as before the
\* call; so on a full store the next set of a new key evicts the front entry
\* also when the contains was of that entry's key.
C11_ContainsFrame ==
    /\ (N >= 1 /\ hist[N].op = "contains" /\ hist[N].ret = TRUE)
        => /\ entries = pre.entries
           /\ StatsAtReturn = pre.stats
    /\ (/\ ~overlap /\ N >= 2
        /\ hist[N - 1].op = "contains" /\ hist[N - 1].ret = TRUE
        /\ IsSetCall(hist[N]) /\ ~contains_key(pre.entries, hist[N].key)
        /\ IsSome(config.max_capacity) /\ Len(pre.entries) = Capacity
        /\ pre.entries[1].key = hist[N - 1].key)
        => ~contains_key(entries, hist[N - 1].key)

\* contains(a) was true on the full store a, b, c and the set of d that
\* followed evicted a.
C11_Witness ==
    /\ ~overlap /\ N = 2
    /\ hist[1].op = "contains" /\ hist[1].key = "a" /\ hist[1].ret = TRUE
    /\ hist[2].op = "set" /\ hist[2].key = "d"
    /\ KeysOf(entries) = <<"b", "c", "d">>
    /\ stats.evictions = 1
\* The pair is expired at clock reading t: it has an expires_at <= t.
ExpiredBy(p, t) ==
    IsSome(p.entry.expires_at) /\ Unwrap(p.entry.expires_at) <= t

\* C12: cleanup_expired judges every entry against the one clock reading it
\* takes: it removes exactly the entries with expires_at <= that reading,
\* keeps the others in their order, returns the number removed, adds it to
\* expirations and subtracts it from size (the other counters stay).
C12_CleanupExpired ==
    (N >= 1 /\ hist[N].op = "cleanup_expired")
        => LET t == hist[N].t
               removed == Cardinality({i \in 1..Len(pre.entries) : ExpiredBy(pre.entries[i], t)})
           IN  /\ entries = SelectSeq(pre.entries, LAMBDA p : ~ExpiredBy(p, t))
               /\ hist[N].ret = removed
               /\ StatsAtReturn = [pre.stats EXCEPT !.expirations = @ + removed,
                                                    !.size = @ - removed]

\* cleanup_expired removed two expired entries and kept one whose TTL had
\* not elapsed.
C12_Witness ==
    /\ N >= 1 /\ hist[N].op = "cleanup_expired"
    /\ hist[N].ret = 2
    /\ Len(entries) = 1 /\ IsSome(entries[1].entry.expires_at)
    /\ stats.expirations = 2
\* The calls of hist that are sets.
SetCalls == {i \in 1..N : IsSetCall(hist[i])}

\* The run started on an empty engine and so far consisted of sets without
\* TTL of pairwise distinct keys and of gets, each get started after the set
\* of its key had returned; the capacity is unlimited or at least the
\* number of keys set.
PairsRun ==
    /\ stats.sets = Cardinality(SetCalls)
    /\ \A i \in 1..N : hist[i].op \in {"set", "get"} /\ hist[i].ttl = None
    /\ \A i, j \in SetCalls : i # j => hist[i].key # hist[j].key
    /\ \A j \in 1..N : hist[j].op = "get"
          => \E i \in SetCalls : hist[i].key = hist[j].key /\ StartedAfter(j, i)
    /\ IsSome(config.max_capacity) => Capacity >= Cardinality(SetCalls)

\* C13: when threads run set-then-get pairs on pairwise disjoint keys, with
\* no TTL and a capacity that is unlimited or at least the number of keys,
\* every get returns the value its thread just set and the store holds one
\* entry per set: N * M entries when every thread has finished.
C13_DisjointPairs ==
    PairsRun
        => /\ \A j \in 1..N : hist[j].op = "get"
                => \E i \in SetCalls : /\ hist[i].key = hist[j].key
                                       /\ hist[j].ret = hist[i].value
           /\ len = Cardinality(SetCalls)
           /\ N = 2 * Cardinality(Threads) * MaxPairs
                => len = Cardinality(Threads) * MaxPairs

\* Every thread finished its pairs, the calls overlapped, and the capacity
\* was exactly the number of keys.
C13_Witness ==
    /\ PairsRun /\ overlap
    /\ N = 2 * Cardinality(Threads) * MaxPairs
    /\ IsSome(config.max_capacity) /\ len = Capacity
    /\ \A j \in 1..N : hist[j].op = "get" => IsSome(hist[j].ret)
\* The value the store held for key k when i calls had returned, for a key
\* that was in the store then: that of the last set of k among them, or the
\* value of the sets that filled the engine.
ValueAfter(k, i) ==
    LET sets == {m \in 1..i : IsSetCall(hist[m]) /\ hist[m].key = k}
    IN  IF sets = {} THEN Some("v1")
        ELSE hist[CHOOSE m \in sets : \A n \in sets : n <= m].value

\* C14: when the key of a get that hit in its read phase is gone from the
\* store by the time the get holds the write guard, the get returns the value
\* it captured and its touch step changes nothing: key not inserted again,
\* store and counters as they were.
C14_TouchOfRemovedKey ==
    (/\ N >= 1 /\ hist[N].op = "get" /\ IsSome(hist[N].ret)
     /\ ~contains_key(pre.entries, hist[N].key))
        => /\ hist[N].ret = ValueAfter(hist[N].key, hist[N].after)
           /\ entries = pre.entries
           /\ StatsAtReturn = pre.stats

\* The key of a get was evicted by the set of another thread between the
\* two phases of the get.
C14_Witness ==
    /\ N = 2 /\ hist[2].op = "get" /\ IsSome(hist[2].ret) /\ hist[2].after = 0
    /\ ~contains_key(pre.entries, hist[2].key)
    /\ hist[1].op = "set" /\ stats.evictions = 1
    /\ Len(entries) = Capacity
----------------------------------------------------------------------------
\* The key-value map the engine implements: each key has no binding or a
\* value with an optional expiry; a binding whose expiry has passed stays
\* until a get, a contains or a cleanup_expired meets it (lazy expiry).

MapKeys == Keys \cup {FillKeys[i] : i \in 1..Len(FillKeys)}

\* The map after the sets that filled an engine without capacity limit.
MapInit ==
    LET n == stats.sets - Cardinality(SetCalls)
    IN  [k \in MapKeys |->
            IF \E i \in 1..n : FillKeys[i] = k
            THEN Some([value |-> "v1",
                       expires_at |-> IF IsSome(config.default_ttl)
                                      THEN Some(Unwrap(config.default_ttl)) ELSE None])
            ELSE None]

\* Binding b is past its expiry at time u.
MapExpired(b, u) == IsSome(b.expires_at) /\ Unwrap(b.expires_at) <= u

\* Call c applied to map m at time u: the map it leaves and its result.
MapApply(m, c, u) ==
    LET k == c.key
        gone == [m EXCEPT ![k] = None]
    IN  CASE IsSetCall(c) ->
               [m |-> [m EXCEPT ![k] = Some([value |-> Unwrap(c.value),
                                             expires_at |-> IF IsSome(c.ttl)
                                                            THEN Some(c.t + Unwrap(c.ttl))
                                                            ELSE None])],
                ret |-> None]
          [] c.op = "get" ->
               IF ~IsSome(m[k]) THEN [m |-> m, ret |-> None]
               ELSE IF MapExpired(Unwrap(m[k]), u) THEN [m |-> gone, ret |-> None]
               ELSE [m |-> m, ret |-> Some(Unwrap(m[k]).value)]
          [] c.op = "contains" ->
               IF ~IsSome(m[k]) THEN [m |-> m, ret |-> FALSE]
               ELSE IF MapExpired(Unwrap(m[k]), u) THEN [m |-> gone, ret |-> FALSE]
               ELSE [m |-> m, ret |-> TRUE]
          [] c.op = "delete" -> [m |-> gone, ret |-> IsSome(m[k])]
          [] c.op = "clear" -> [m |-> [x \in MapKeys |-> None], ret |-> None]
          [] c.op = "cleanup_expired" ->
               LET dead == {x \in MapKeys : IsSome(m[x]) /\ MapExpired(Unwrap(m[x]), u)}
               IN  [m |-> [x \in MapKeys |-> IF x \in dead THEN None ELSE m[x]],
                    ret |-> Cardinality(dead)]

\* The store holds exactly the bindings of map m.
MapMatches(m, es) ==
    \A k \in MapKeys :
        IF IsSome(m[k])
        THEN /\ contains_key(es, k)
             /\ map_get(es, k).value = Unwrap(m[k]).value
             /\ map_get(es, k).expires_at = Unwrap(m[k]).expires_at
        ELSE ~contains_key(es, k)

\* The calls of todo can be put in an order that respects which call
\* returned before which started, such that applied to m one after the other,
\* each at a time between its first and last clock reading, they give the
\* results of hist and leave the contents of the store.
RECURSIVE Linearizable(_, _)
Linearizable(m, todo) ==
    IF todo = {} THEN MapMatches(m, entries)
    ELSE \E i \in todo :
            /\ \A j \in todo : ~(j # i /\ StartedAfter(i, j))
            /\ \E u \in hist[i].t .. hist[i].t2 :
                  LET r == MapApply(m, hist[i], u)
                  IN  /\ r.ret = hist[i].ret
                      /\ Linearizable(r.m, todo \ {i})

\* C15: without capacity limit, the calls that returned, however they
\* overlapped, have a total order consistent with real time in which every
\* get returns the value of the latest set of its key not followed by a
\* delete, clear or expiry, every delete and contains returns whether the key
\* was there, and the contents of the store are those of the map.
C15_Linearizable ==
    (~IsSome(config.max_capacity) /\ ~poisoned)
        => Linearizable(MapInit, 1..N)

\* A get overlapped a set of its key: the set returned first, and the get
\* returned the value from before the set.
C15_Witness ==
    /\ ~IsSome(config.max_capacity)
    /\ N = 2 /\ hist[2].after = 0
    /\ hist[1].op = "set" /\ hist[1].value = Some("v2")
    /\ hist[2].op = "get" /\ hist[2].key = hist[1].key /\ hist[2].ret = Some("v1")
----------------------------------------------------------------------------
\* The store and the counters that the calls through handle h act on.
HandleView(h) ==
    IF handles[h] = "db" THEN [entries |-> entries, stats |-> stats] ELSE Unwrap(cloned)

\* C16: all Cache handles refer to one Db, so in every state get, contains,
\* len and stats through any handle see the same store and the same
\* counters; Cache::clone changes no entry and no counter and copies nothing.
C16_HandlesShare ==
    /\ \A g, h \in 1..Len(handles) :
          /\ handles[g] = handles[h]
          /\ HandleView(g) = HandleView(h)
    /\ (N >= 1 /\ hist[N].op = "Cache::clone")
        => /\ entries = pre.entries
           /\ StatsAtReturn = pre.stats
           /\ cloned = pre.cloned

\* A handle was cloned and a delete then removed a key of the store the two
\* handles share.
C16_Witness ==
    /\ Len(handles) = 2 /\ N = 2
    /\ hist[1].op = "Cache::clone"
    /\ hist[2].op = "delete" /\ hist[2].ret = TRUE
    /\ HandleView(1) = HandleView(2) /\ Len(HandleView(2).entries) = 1

EngineOps == {"set", "set_with_ttl", "get", "contains", "delete", "clear", "cleanup_expired"}
CloneOps == {"clone.set", "clone.get", "clone.delete", "clone.clear"}

\* C17: Db::clone returns a Db whose store is the source's store at that
\* moment (keys, values, expiries, order) and whose seven counters are 0,
\* and leaves the source as it was; afterwards a call on the source leaves
\* the clone as it was and a call on the clone leaves the store and the
\* counters of the source as they were.
C17_DeepClone ==
    /\ (N >= 1 /\ hist[N].op = "Db::clone" /\ ~poisoned)
        => /\ cloned = Some([entries |-> pre.entries, stats |-> ZeroStats])
           /\ entries = pre.entries
           /\ StatsAtReturn = pre.stats
    /\ (N >= 1 /\ hist[N].op \in EngineOps) => cloned = pre.cloned
    /\ (N >= 1 /\ hist[N].op \in CloneOps)
        => /\ entries = pre.entries
           /\ StatsAtReturn = pre.stats

\* The engine was cloned when its counters were not 0, and a clear of the
\* clone left the source full.
C17_Witness ==
    /\ N = 2 /\ hist[1].op = "Db::clone" /\ hist[2].op = "clone.clear"
    /\ Unwrap(cloned).entries = <<>> /\ Unwrap(pre.cloned).entries = entries
    /\ Len(entries) = 2 /\ stats.sets = 2
    /\ Unwrap(pre.cloned).stats = ZeroStats
----------------------------------------------------------------------------
\* The call of hist after which the lock was poisoned, 0 when it is not.
PoisonedAt ==
    IF \E i \in 1..N : hist[i].op = "panic"
    THEN CHOOSE i \in 1..N : hist[i].op = "panic"
    ELSE 0

----------------------------------------------------------------------------
\* C19: the entry stored by set(k, v) expires at the clock reading of the
\* call plus default_ttl when a default TTL is configured and has no expiry
\* otherwise; the entry stored by set_with_ttl(k, v, d) expires at the clock
\* reading of the call plus d, whatever default_ttl is.
C19_DefaultTtl ==
    (N >= 1 /\ IsSetCall(hist[N]) /\ ~poisoned)
        => /\ contains_key(entries, hist[N].key)
           /\ map_get(entries, hist[N].key).value = Unwrap(hist[N].value)
           /\ hist[N].op = "set"
                => map_get(entries, hist[N].key).expires_at =
                     IF IsSome(config.default_ttl)
                     THEN Some(hist[N].t + Unwrap(config.default_ttl))
                     ELSE None
           /\ hist[N].op = "set_with_ttl"
                => map_get(entries, hist[N].key).expires_at =
                     Some(hist[N].t + Unwrap(hist[N].ttl))

\* With a default TTL configured, a set_with_ttl and then a set stored
\* entries with different lifetimes.
C19_Witness ==
    /\ N = 2 /\ IsSome(config.default_ttl)
    /\ hist[1].op = "set_with_ttl" /\ hist[2].op = "set" /\ hist[1].key # hist[2].key
    /\ hist[1].t = hist[2].t
    /\ map_get(entries, hist[1].key).expires_at # map_get(entries, hist[2].key).expires_at
    /\ IsSome(map_get(entries, hist[2].key).expires_at)
----------------------------------------------------------------------------
\* C20: when background_cleanup is enabled and cleanup_interval is set, an
\* entry that has expired is eventually removed from the store, whether or
\* not a client calls again.
HasExpired == \E i \in 1..Len(entries) : is_expired_at(entries[i].entry, now)

C20_BackgroundCleanup ==
    []((config.background_cleanup /\ IsSome(config.cleanup_interval) /\ HasExpired)
          => <>~HasExpired)
----------------------------------------------------------------------------
\* C21: with the default configuration a step in which no call returns (a
\* tick of the clock, a call taking its first guard) leaves the store and
\* len() as they are, and a key leaves the store, or the entry of a key is
\* replaced, only in the step of a returning get, contains or delete of that
\* key, cleanup_expired, clear, or a set (of that key when it is replaced, of
\* a key that was absent when it is evicted).
Removes(c, k) ==
    \/ c.op \in {"get", "contains", "delete"} /\ c.key = k
    \/ c.op \in {"cleanup_expired", "clear"}
    \/ IsSetCall(c) /\ c.key # k /\ ~contains_key(entries, c.key)

C21_Step ==
    /\ hist' = hist => (entries' = entries /\ len' = len)
    /\ \A k \in KeySet(entries) \ KeySet(entries') :
          hist' # hist /\ Removes(hist'[Len(hist')], k)
    /\ \A k \in KeySet(entries) \cap KeySet(entries') :
          (\/ map_get(entries, k).value # map_get(entries', k).value
           \/ map_get(entries, k).expires_at # map_get(entries', k).expires_at)
            => /\ hist' # hist
               /\ IsSetCall(hist'[Len(hist')]) /\ hist'[Len(hist')].key = k

C21_TimeAloneChangesNothing == [][C21_Step]_vars

\* The clock has passed the expiry of a stored entry, which len() counts.
C21_Witness ==
    /\ config = CacheConfig_default
    /\ \E i \in 1..Len(entries) :
          /\ is_expired_at(entries[i].entry, now)
          /\ entries[i].entry.last_accessed < now
    /\ len = Len(entries)
----------------------------------------------------------------------------
\* C22: in every state of an engine made by Db::new (every state of the
\* model is one in which no thread holds the write guard: a guarded section
\* is one step, and every update of size is made inside one) the size counter
\* equals the length of the store.
C22_SizeIsLen == stats.size = Len(entries)

\* An entry has been evicted, and a get is between its guards.
C22_Witness ==
    /\ stats.evictions >= 1
    /\ \E t \in Threads : th[t].pc \in {"get_touch", "get_expired"}
    /\ stats.size = Len(entries)
----------------------------------------------------------------------------
\* C23: hits counts the gets that returned Some and misses the gets that
\* returned None, and no other call changes either: the hits recorded by
\* gets that returned (a get records its hit under the read guard, before it
\* returns) equal the number of returned gets with Some, misses the number
\* of returned gets with None, so that once no get is in flight
\* hits + misses is the number of gets.
GetsReturning(some) ==
    Cardinality({i \in 1..N : hist[i].op = "get" /\ (hist[i].ret # None) = some})

HitsInFlight == Cardinality({t \in Threads : th[t].pc = "get_touch"})

C23_HitsAndMisses ==
    /\ stats.hits - HitsInFlight = GetsReturning(TRUE)
    /\ stats.misses = GetsReturning(FALSE)
    /\ InFlight = {} =>
          stats.hits + stats.misses = Cardinality({i \in 1..N : hist[i].op = "get"})

\* A get of an expired key returned None after a set_with_ttl.
C23_Witness ==
    /\ N = 2 /\ hist[1].op = "set_with_ttl"
    /\ hist[2].op = "get" /\ hist[2].key = hist[1].key /\ hist[2].ret = None
    /\ stats.misses = 1 /\ stats.hits = 0 /\ stats.expirations = 1
----------------------------------------------------------------------------
\* C24: expirations counts the entries that left the store because their
\* TTL had elapsed: a returning get, contains or cleanup_expired raises it by
\* the number of entries it removed, and no other call changes it.
C24_ExpirationsCountRemovals ==
    N >= 1 =>
        stats.expirations - pre.stats.expirations =
            IF hist[N].op \in {"get", "contains", "cleanup_expired"}
            THEN Len(pre.entries) - Len(entries)
            ELSE 0
----------------------------------------------------------------------------
\* C25: a returned set or set_with_ttl raised sets by exactly one, whether
\* its key was new or overwritten, and incremented size by one exactly when
\* the key was not in the store (the increment is what size changed by apart
\* from the decrement of each eviction the call made).
C25_SetCounters ==
    (N >= 1 /\ IsSetCall(hist[N]) /\ ~poisoned)
        => /\ stats.sets = pre.stats.sets + 1
           /\ (stats.size - pre.stats.size) + (stats.evictions - pre.stats.evictions)
                = IF contains_key(pre.entries, hist[N].key) THEN 0 ELSE 1

\* An overwriting set and then a set of a new key that evicted.
C25_Witness ==
    /\ N = 2 /\ IsSetCall(hist[1]) /\ IsSetCall(hist[2])
    /\ stats.sets = Filled(config, MaxFill).stats.sets + 2
    /\ stats.size = Filled(config, MaxFill).stats.size
    /\ ~contains_key(pre.entries, hist[2].key)
    /\ stats.evictions = 1 /\ pre.stats.evictions = 0
----------------------------------------------------------------------------
\* C26: a returned delete of a key that was not in the store returned false
\* and left the store, its order and the seven counters as they were; one of
\* a key that was in the store returned true, raised deletes by one and
\* lowered size by one; so deletes is the number of deletes that returned
\* true.
C26_DeleteCounters ==
    /\ (N >= 1 /\ hist[N].op = "delete" /\ ~poisoned)
        => IF contains_key(pre.entries, hist[N].key)
           THEN /\ hist[N].ret = TRUE
                /\ stats.deletes = pre.stats.deletes + 1
                /\ stats.size = pre.stats.size - 1
           ELSE /\ hist[N].ret = FALSE
                /\ entries = pre.entries
                /\ StatsAtReturn = pre.stats
    /\ ~poisoned =>
          stats.deletes = Cardinality({i \in 1..N : hist[i].op = "delete" /\ hist[i].ret = TRUE})

\* The second of two deletes of one key found it gone.
C26_Witness ==
    /\ N = 2 /\ hist[1].op = "delete" /\ hist[2].op = "delete"
    /\ hist[1].key = hist[2].key
    /\ hist[1].ret = TRUE /\ hist[2].ret = FALSE
    /\ stats.deletes = 1 /\ entries = pre.entries
----------------------------------------------------------------------------
\* C27: the response to a set request is "r Ok" exactly when its set
\* replaced an entry that was in the store, and "Ok" exactly when it
\* inserted a key that was not.
C27_SetResponse ==
    (N >= 1 /\ hist[N].op = "request.set" /\ ~poisoned)
        => hist[N].ret = IF contains_key(pre.entries, hist[N].key)
                         THEN <<"r", "Ok">> ELSE <<"Ok">>

----------------------------------------------------------------------------
\* C28: the step that answers a request with an unknown command word, or a
\* get, set or delete request with too few arguments, gives a response that
\* begins with ERR and changes neither the store nor any of the seven
\* counters; it leaves every thread where it was and the lock unpoisoned, so
\* that further requests are handled as before.
Malformed(attrs) ==
    \/ Command_get(attrs[1]) = "Invalid"
    \/ Command_get(attrs[1]) \in {"Get", "Delete"} /\ Len(attrs) < 2
    \/ Command_get(attrs[1]) = "Set" /\ Len(attrs) < 3

C28_Step ==
    (/\ hist' # hist
     /\ hist'[Len(hist')].op = "request"
     /\ Malformed(Unwrap(hist'[Len(hist')].value)))
        => /\ hist'[Len(hist')].ret[1] = "ERR"
           /\ UNCHANGED <<entries, stats, th, poisoned>>

C28_ErrResponse == [][C28_Step]_vars

\* After a set request that stored a key, a set request without a value was
\* rejected.
C28_Witness ==
    /\ N = 2 /\ hist[1].op = "request.set" /\ hist[1].ret = <<"Ok">>
    /\ hist[2].op = "request" /\ Command_get(Unwrap(hist[2].value)[1]) = "Set"
    /\ Len(Unwrap(hist[2].value)) = 2
    /\ hist[2].ret[1] = "ERR"
    /\ Len(entries) > 0
----------------------------------------------------------------------------
\* C29: in a cache built without max_capacity or with max_capacity(0) the
\* evictions counter stays 0 and a returned set or set_with_ttl removed no
\* key: the keys of the store are those it had and the key of the set.
C29_Unbounded ==
    /\ stats.evictions = 0
    /\ (N >= 1 /\ IsSetCall(hist[N]))
          => KeySet(entries) = KeySet(pre.entries) \cup {hist[N].key}

\* Two sets of new keys grew the store beyond its filling.
C29_Witness ==
    /\ ~IsSome(config.max_capacity)
    /\ N = 2 /\ IsSetCall(hist[1]) /\ IsSetCall(hist[2])
    /\ Len(entries) = Len(pre.entries) + 1
    /\ Len(entries) >= 2
    /\ KeySet(pre.entries) \subseteq KeySet(entries)
----------------------------------------------------------------------------
\* C30: hit_rate() is 0 when hits + misses = 0 and hits * 100 / (hits +
\* misses) otherwise, always between 0 and 100; when no call ran at the same
\* time it is that function of the current counters, and the hit_rate field
\* of a snapshot is that function of the snapshot's own hits and misses.
\* (r is the fraction num / den, den > 0; equality is by cross-multiplying.)
IsRateOf(r, hits, misses) ==
    /\ r.den > 0
    /\ IF hits + misses = 0
       THEN r.num = 0
       ELSE r.num * (hits + misses) = hits * 100 * r.den

InRange(r) == r.den > 0 /\ 0 <= r.num /\ r.num <= 100 * r.den

C30_HitRate ==
    /\ (N >= 1 /\ hist[N].op = "hit_rate")
          => /\ InRange(hist[N].ret)
             /\ ~overlap => IsRateOf(hist[N].ret, StatsAtReturn.hits, StatsAtReturn.misses)
    /\ (N >= 1 /\ hist[N].op = "snapshot")
          => /\ InRange(hist[N].ret.hit_rate)
             /\ ~overlap => /\ IsRateOf(hist[N].ret.hit_rate, hist[N].ret.hits, hist[N].ret.misses)
                            /\ hist[N].ret.hits = StatsAtReturn.hits
                            /\ hist[N].ret.misses = StatsAtReturn.misses

\* A snapshot taken after one hit and two misses: a rate that is not a whole
\* number.
C30_Witness ==
    /\ ~overlap /\ N = 2
    /\ hist[1].op = "get" /\ hist[1].ret # None
    /\ hist[2].op = "snapshot"
    /\ hist[2].ret.hits = 1 /\ hist[2].ret.misses = 2
    /\ hist[2].ret.hit_rate = [num |-> 100, den |-> 3]

\* Some step of thread t on the lock.
LockStep(t) == acquire_read(t) \/ read_section(t) \/ acquire_write(t) \/ write_section(t)

\* C31: no operation asks for the write guard while it holds its read guard,
\* the lock is held by one writer or by readers only, whenever a call is in
\* flight some thread can take a step (no reachable state is a deadlock),
\* and under fair lock scheduling every started call eventually returns,
\* its thread holding no guard.
C31_NoDeadlock ==
    /\ [](/\ \A t \in Threads : th[t].pc # "read_held_want_write"
          /\ Cardinality(Writers) <= 1
          /\ Writers # {} => Readers = {}
          /\ InFlight # {} => \E t \in InFlight : ENABLED LockStep(t))
    /\ \A t \in Threads : (th[t].pc # "idle") ~> (th[t].pc = "idle")
\* A get that holds the read guard on an expired key while another thread
\* waits for the write guard.
C31_Witness ==
    /\ \E t \in Threads : /\ th[t].pc = "read_held" /\ th[t].op = "get"
                          /\ contains_key(entries, th[t].key)
                          /\ is_expired_at(map_get(entries, th[t].key), now)
    /\ \E t \in Threads : th[t].pc = "want_write"

\* C32: with a configuration from the builder the capacity limit is None or
\* at least 1, so the eviction loop of set ends; the store never holds more
\* than max_capacity entries, no step evicts more than one entry, and a set
\* of a new key on a full store removes exactly one entry (the front one),
\* raises evictions by exactly one and leaves the store at max_capacity.
C32_EvictionOnce ==
    /\ IsSome(config.max_capacity) => Capacity >= 1 /\ Len(entries) <= Capacity
    /\ Evicted \in {0, 1}
    /\ (/\ N >= 1 /\ IsSetCall(hist[N]) /\ IsSome(config.max_capacity)
        /\ ~contains_key(pre.entries, hist[N].key)
        /\ Len(pre.entries) = Capacity)
        => /\ Len(entries) = Capacity
           /\ Evicted = 1
           /\ Cardinality(KeySet(pre.entries) \ KeySet(entries)) = 1
           /\ KeysOf(entries) = Tail(KeysOf(pre.entries)) \o <<hist[N].key>>

\* A set of a new key on a full store of capacity 1 returned, the second
\* eviction of that engine.
C32_Witness ==
    /\ N >= 1 /\ IsSetCall(hist[N]) /\ ~contains_key(pre.entries, hist[N].key)
    /\ config.max_capacity = Some(1) /\ Len(pre.entries) = 1
    /\ stats.evictions >= 2

\* The last call that returned is a get or a contains whose last step was
\* remove_expired: it saw its key expired under the read guard.  (A get or
\* contains that finds no key returns in the step it starts.)
ObserverReturned ==
    /\ N >= 1 /\ hist[N].op \in {"get", "contains"}
    /\ hist[N].ret = (IF hist[N].op = "get" THEN None ELSE FALSE)
    /\ \/ contains_key(pre.entries, hist[N].key)
       \/ hist[N].op = "get" /\ stats.expirations > pre.stats.expirations

\* C33: the removal step of a get or contains that saw its key expired
\* removes the entry and decrements size by one when the key is still there
\* and expired; when another observer has removed the entry already it
\* removes nothing and leaves size; when another thread has stored a fresh
\* value under the key since the read guard was released it leaves that
\* entry; so size stays the number of entries.
C33_RemovedOnce ==
    /\ ObserverReturned
        => LET k == hist[N].key
           IN  IF contains_key(pre.entries, k)
                    /\ is_expired_at(map_get(pre.entries, k), hist[N].t2)
               THEN /\ entries = shift_remove(pre.entries, k)
                    /\ stats.size = pre.stats.size - 1
               ELSE /\ entries = pre.entries
                    /\ stats.size = pre.stats.size
    /\ stats.size = Len(entries)

\* An observer saw key k expired, a set of k then returned, and the
\* observer's removal step left the fresh entry.
C33_Witness ==
    /\ ObserverReturned /\ N = 2 /\ hist[2].after = 0
    /\ IsSetCall(hist[1]) /\ hist[1].key = hist[2].key
    /\ contains_key(entries, hist[2].key)
    /\ map_get(entries, hist[2].key).value = Unwrap(hist[1].value)

\* Two observers saw the same key expired; the first removed it, the second
\* removed nothing.
C33_WitnessTwoObservers ==
    /\ ObserverReturned /\ N = 2 /\ hist[2].after = 0
    /\ hist[1].op \in {"get", "contains"} /\ hist[1].key = hist[2].key
    /\ ~contains_key(pre.entries, hist[2].key)
    /\ Len(entries) = MaxFill - 1

\* Key x comes before key y in the store order of es.
Before(es, x, y) ==
    /\ contains_key(es, x) /\ contains_key(es, y)
    /\ get_index_of(es, x) < get_index_of(es, y)

\* C34: no step changes the relative order of two keys that stay in the
\* store, except the touch step of a get that hit, which moves the key of
\* the get behind the others and leaves the others in their order; a delete,
\* an eviction, the removal of an expired key and cleanup_expired leave the
\* remaining keys in their order.
C34_OrderKept ==
    /\ \A x, y \in KeySet(pre.entries) \cap KeySet(entries) :
          (Before(pre.entries, x, y) /\ Before(entries, y, x))
            => /\ N >= 1 /\ hist[N].op = "get" /\ IsSome(hist[N].ret)
               /\ hist[N].key = x
    /\ (N >= 1 /\ hist[N].op = "get" /\ IsSome(hist[N].ret)
        /\ contains_key(pre.entries, hist[N].key))
        => KeysOf(entries) = KeysOf(shift_remove(pre.entries, hist[N].key)) \o <<hist[N].key>>
    /\ (N >= 1 /\ (hist[N].op \in {"delete", "contains", "cleanup_expired"}
                   \/ (hist[N].op = "get" /\ hist[N].ret = None)))
        => KeysOf(entries) = SelectSeq(KeysOf(pre.entries), LAMBDA k : contains_key(entries, k))
    /\ (N >= 1 /\ IsSetCall(hist[N]))
        => KeysOf(entries) =
              SelectSeq(KeysOf(pre.entries), LAMBDA k : contains_key(entries, k))
                \o (IF contains_key(pre.entries, hist[N].key) THEN <<>> ELSE <<hist[N].key>>)

\* A get hit the middle key of a full store of three: the key went to the
\* end and the two others kept their order.
C34_Witness ==
    /\ N >= 1 /\ hist[N].op = "get" /\ IsSome(hist[N].ret)
    /\ Len(pre.entries) = 3 /\ pre.entries[2].key = hist[N].key
    /\ KeysOf(entries) = <<pre.entries[1].key, pre.entries[3].key, pre.entries[2].key>>

\* A step in which a set or set_with_ttl returns whose key is in the store
\* with an entry that is expired at the time of the step.
ExpiredOverwrite ==
    /\ Len(hist') = Len(hist) + 1
    /\ IsSetCall(hist'[Len(hist')])
    /\ contains_key(entries, hist'[Len(hist')].key)
    /\ is_expired_at(map_get(entries, hist'[Len(hist')].key), now)

\* What such a step leaves as it was: the store length and order, every
\* other entry, size, evictions and expirations; the key has the new value.
ExpiredOverwriteFrame ==
    LET c == hist'[Len(hist')]
    IN  /\ KeysOf(entries') = KeysOf(entries)
        /\ \A i \in 1..Len(entries) : entries[i].key # c.key => entries'[i] = entries[i]
        /\ map_get(entries', c.key).value = Unwrap(c.value)
        /\ stats'.size = stats.size
        /\ stats'.evictions = stats.evictions
        /\ stats'.expirations = stats.expirations

\* The expiry that the call gives its entry: the clock reading the call took
\* plus its TTL (the default TTL for a plain set), or none.
NewExpiry(c) ==
    IF c.op = "set_with_ttl" THEN Some(c.t + Unwrap(c.ttl))
    ELSE IF IsSome(config.default_ttl) THEN Some(c.t + Unwrap(config.default_ttl))
    ELSE None

C36_EvictionIgnoresExpiry ==
    (/\ N >= 1 /\ IsSetCall(hist[N]) /\ IsSome(config.max_capacity)
     /\ ~contains_key(pre.entries, hist[N].key)
     /\ Len(pre.entries) = Capacity)
        => /\ SubSeq(entries, 1, Len(entries) - 1) = Tail(pre.entries)
           /\ entries[Len(entries)].key = hist[N].key
           /\ stats.evictions = pre.stats.evictions + 1
           /\ stats.expirations = pre.stats.expirations
           /\ stats.size = pre.stats.size

\* The front entry was live and the other entry of the full store expired
\* when a set of a new key evicted the front entry; the expired one stays.
C36_Witness ==
    /\ N >= 1 /\ IsSetCall(hist[N]) /\ IsSome(config.max_capacity)
    /\ ~contains_key(pre.entries, hist[N].key)
    /\ Len(pre.entries) = Capacity /\ Capacity = 2
    /\ ~is_expired_at(pre.entries[1].entry, now)
    /\ is_expired_at(pre.entries[2].entry, hist[N].t)
    /\ entries[1] = pre.entries[2]
    /\ ~contains_key(entries, pre.entries[1].key)

\* C37: a step taken while the lock is poisoned changes no statistics
\* counter.
C37_PoisonFreezesCounters ==
    [][poisoned => stats' = stats]_vars

\* C38: the size counter of the engine, and of an engine that Db::clone
\* returned, is never decremented at 0: it never holds a wrapped value (a
\* negative representative stands for 2^64 minus its magnitude).
C38_SizeNeverWraps ==
    /\ stats.size >= 0
    /\ IsSome(cloned) => Unwrap(cloned).stats.size >= 0

\* The last set or set_with_ttl of key k that returned, 0 when there is none.
LastSetOf(k) ==
    LET I == {i \in 1..N : IsSetCall(hist[i]) /\ hist[i].key = k}
    IN  IF I = {} THEN 0 ELSE CHOOSE i \in I : \A j \in I : j <= i

\* C39: the expiry of every stored key is the one its most recent set or
\* set_with_ttl gave it, whatever the entry it replaced: none for a plain
\* set without default TTL, the clock reading of the call plus d for
\* set_with_ttl(d); a get or a contains that returns leaves the expiry of
\* every key that stays in the store.
C39_ExpiryFromLastSet ==
    /\ \A k \in KeySet(entries) :
          LastSetOf(k) > 0
            => map_get(entries, k).expires_at = NewExpiry(hist[LastSetOf(k)])
    /\ (N >= 1 /\ hist[N].op \in {"get", "contains"})
        => \A k \in KeySet(entries) :
              /\ contains_key(pre.entries, k)
              /\ map_get(entries, k).expires_at = map_get(pre.entries, k).expires_at

\* A plain set overwrote an entry that carried a TTL: the key never expires.
C39_Witness ==
    /\ N = 2 /\ hist[1].op = "set_with_ttl" /\ hist[2].op = "set"
    /\ hist[1].key = hist[2].key
    /\ IsSome(map_get(pre.entries, hist[2].key).expires_at)
    /\ map_get(entries, hist[2].key).expires_at = None

\* set_with_ttl at time 1 overwrote an entry stored with a TTL at time 0:
\* the key expires at 1 + d.
C39_WitnessLaterTtl ==
    /\ N = 2 /\ hist[1].op = "set_with_ttl" /\ hist[2].op = "set_with_ttl"
    /\ hist[1].key = hist[2].key /\ hist[1].t = 0 /\ hist[2].t = 1
    /\ map_get(pre.entries, hist[2].key).expires_at = Some(1)
    /\ map_get(entries, hist[2].key).expires_at = Some(2)

\* The atomic LRU cache: the operations of Db with each call as one step
\* (the lookup of get and its move to the end together), on the store and
\* counters s, at clock reading u.
LruApply(s, c, u) ==
    LET k == c.key
        same == [entries |-> s.entries, stats |-> s.stats]
    IN  CASE IsSetCall(c) ->
               set_internal(s.entries, s.stats, config, k,
                            IF c.op = "set_with_ttl"
                            THEN Entry_with_expiration(Unwrap(c.value), c.t + Unwrap(c.ttl), c.t)
                            ELSE set_entry(config, Unwrap(c.value), c.t))
                   @@ [ret |-> None]
          [] c.op = "get" -> Db_get(s.entries, s.stats, k, u)
          [] c.op = "contains" ->
               IF contains_key(s.entries, k) /\ is_expired_at(map_get(s.entries, k), u)
               THEN remove_expired(s.entries, s.stats, k, u) @@ [ret |-> FALSE]
               ELSE same @@ [ret |-> contains_key(s.entries, k)]
          [] c.op = "delete" ->
               [entries |-> shift_remove(s.entries, k), stats |-> s.stats,
                ret |-> contains_key(s.entries, k)]
          [] c.op = "clear" -> [entries |-> <<>>, stats |-> s.stats, ret |-> None]
          [] c.op = "cleanup_expired" ->
               [entries |-> retain(s.entries, u), stats |-> s.stats,
                ret |-> Len(s.entries) - Len(retain(s.entries, u))]

\* The calls of todo can be put in an order that respects which call
\* returned before which started, such that the atomic LRU cache, started
\* from s and given the calls one after the other, each at a time between
\* its first and last clock reading, returns the results of hist and ends
\* with the keys of the store.
RECURSIVE LruLinearizable(_, _)
LruLinearizable(s, todo) ==
    IF todo = {} THEN KeySet(s.entries) = KeySet(entries)
    ELSE \E i \in todo :
            /\ \A j \in todo : ~(j # i /\ StartedAfter(i, j))
            /\ \E u \in hist[i].t .. hist[i].t2 :
                  LET r == LruApply(s, hist[i], u)
                  IN  /\ r.ret = hist[i].ret
                      /\ LruLinearizable(r, todo \ {i})

\* C40: with a capacity limit, the calls that returned, however they
\* overlapped, have a total order consistent with real time in which the
\* atomic LRU cache returns what they returned and ends with the resident
\* keys of the store.
C40_RefinesAtomicLru ==
    IsSome(config.max_capacity)
        => LruLinearizable(Filled(config, stats.sets - Cardinality(SetCalls)), 1..N)

\* In the runs without overlapping calls the atomic LRU cache and the store
\* agree.
C40_Sequential ==
    (IsSome(config.max_capacity) /\ ~overlap /\ \A i \in 1..N : hist[i].after = i - 1)
        => LruLinearizable(Filled(config, stats.sets - Cardinality(SetCalls)), 1..N)
====
